---- MODULE Spec2Model ----
(***************************************************************************)
(* A model of the crypto matching engine: engine.MatchingEngine with its   *)
(* OrderBook and PriceLevel (src/engine.py), the trade recorder            *)
(* (src/trade_log.py) and the heap based order_book.OrderBook              *)
(* (src/order_book.py).                                                    *)
(*                                                                         *)
(* Python objects are kept in a store (heap) and the containers of the     *)
(* program hold references into it, so that a quantity changed through one *)
(* reference is seen through every other one, as in the program.           *)
(* Quantities are whole lots.  Prices are integers in units of 0.001, so   *)
(* that normalize_price, which rounds to 0.01, is a real conversion.       *)
(***************************************************************************)
EXTENDS Integers, Sequences, FiniteSets, TLC

\* ------------------------------------------------------------------ bounds

\* number of Order objects constructed in one behaviour
MaxOrders == 3
\* largest quantity of a submitted order
MaxQty == 2
\* largest canonical price, in ticks of 0.01
MaxTick == 2

\* the capacity of a symbol's deque of recent trades, in place of the 1000
\* of trade_log.py line 13
MaxLen == 2

\* round(price, 2): a tick of 0.01 is SubTick units of 0.001
SubTick == 10
\* price: Optional[float] = None
NoPrice == -1

\* trigger_type: Optional[str] = None
NoTrigger == "none"

Symbol == "BTC-USDT"

\* a symbol no order is submitted for
UnknownSymbol == "ETH-USDT"

Symbols == {Symbol, UnknownSymbol}

Sides == {"buy", "sell"}

OrderTypes == {"market", "limit", "ioc", "fok"}

\* prices a client can send: on the 0.01 grid and off it
RawPrices == {t * SubTick + d : t \in 1..MaxTick, d \in {0, 4}}

Quantities == 0..MaxQty

EmptyMap == [k \in {} |-> 0]

Min(a, b) == IF a <= b THEN a ELSE b

SetMin(S) == CHOOSE x \in S : \A y \in S : x <= y

SetMax(S) == CHOOSE x \in S : \A y \in S : x >= y

RECURSIVE SortedAsc(_)
\* sorted(keys)
SortedAsc(S) ==
    IF S = {} THEN <<>> ELSE <<SetMin(S)>> \o SortedAsc(S \ {SetMin(S)})

RECURSIVE SortedDesc(_)
\* sorted(keys, reverse=True)
SortedDesc(S) ==
    IF S = {} THEN <<>> ELSE <<SetMax(S)>> \o SortedDesc(S \ {SetMax(S)})

Range(s) == {s[i] : i \in 1..Len(s)}

\* list.remove(x): drops the first element equal to x
ListRemove(s, x) ==
    LET i == CHOOSE k \in 1..Len(s) : s[k] = x /\ \A j \in 1..(k - 1) : s[j] # x
    IN  SubSeq(s, 1, i - 1) \o SubSeq(s, i + 1, Len(s))

\* dict without key k
DictDel(f, k) == [x \in DOMAIN f \ {k} |-> f[x]]

\* dict with f[k] = v
DictPut(f, k, v) == [x \in DOMAIN f \cup {k} |-> IF x = k THEN v ELSE f[x]]

\* ------------------------------------------------------------------ state

VARIABLES
    order_books,    \* MatchingEngine.order_books: symbol -> OrderBook
    heap,           \* the Order objects the books refer to: reference -> Order
    trade_history,  \* trade_log.trade_history
    symbol_trades,  \* trade_log.symbol_trades: symbol -> deque of trades
    nextId,         \* the number of Order objects constructed so far (uuid4)
    submitted,      \* the quantity each order was constructed with
    ret,            \* the last call: its operation, argument and outcome
    ob,             \* an order_book.OrderBook: bids, asks, the two price
                    \* heaps and active_orders
    ob_heap,        \* the order.Order objects that book refers to
    ob_nextId,      \* the number of order.Order objects constructed so far
    ob_ret,         \* the last call on that book and its outcome
    stop_orders,    \* stop_orders.stop_orders_by_symbol[Symbol]: the pending
                    \* conditional orders, in arrival order
    tasks,          \* the monitor_stop_orders tasks: running or dead
    promotions,     \* every process_order call a watcher has made
    reply,          \* the last HTTP reply
    market_data_connections,
                    \* ConnectionManager.market_data_connections: symbol ->
                    \* the websockets subscribed to its market data
    trade_connections,
                    \* ConnectionManager.trade_connections
    handlers,       \* the submit_order coroutines suspended in a broadcast
    received,       \* the messages each websocket has been sent, in order
    files           \* the files of orderbook_data: symbol -> content

\* the state of the engine and of the trade recorder
engine_vars == <<order_books, heap, trade_history, symbol_trades, nextId,
                 submitted, ret>>

\* the state of the order_book.OrderBook
ob_vars == <<ob, ob_heap, ob_nextId, ob_ret>>

\* the state of the HTTP layer and of the conditional watcher
main_vars == <<stop_orders, tasks, promotions, reply>>

\* the state of the websocket layer and of the disk
io_vars == <<market_data_connections, trade_connections, handlers, received,
             files>>

vars == <<order_books, heap, trade_history, symbol_trades, nextId, submitted,
          ret,
          ob, ob_heap, ob_nextId, ob_ret,
          stop_orders, tasks, promotions, reply,
          market_data_connections, trade_connections, handlers, received,
          files>>

\* ------------------------------------------------------------------ engine.py

\* def normalize_price(price): return round(price, 2)
normalize_price(price) ==
    LET q == price \div SubTick
        r == price % SubTick
    IN  IF 2 * r < SubTick THEN q * SubTick
        ELSE IF 2 * r > SubTick THEN (q + 1) * SubTick
        ELSE IF q % 2 = 0 THEN q * SubTick ELSE (q + 1) * SubTick

\* PriceLevel.__init__
PriceLevel(price) ==
    [price |-> normalize_price(price), orders |-> <<>>, total_quantity |-> 0]

\* a level that queues a new order in front: self.orders.insert(0, order)
PriceLevel_add_order_front(level, ref, order) ==
    [level EXCEPT !.orders = <<ref>> \o @,
                  !.total_quantity = @ + order.quantity]

\* PriceLevel.add_order
PriceLevel_add_order(level, ref, order) ==
    [level EXCEPT !.orders = Append(@, ref),
                  !.total_quantity = @ + order.quantity]

\* PriceLevel.remove_order
PriceLevel_remove_order(level, ref, order) ==
    IF ref \in Range(level.orders)
    THEN [level EXCEPT !.total_quantity = @ - order.quantity,
                       !.orders = ListRemove(@, ref)]
    ELSE level

\* PriceLevel.is_empty
PriceLevel_is_empty(level) == Len(level.orders) = 0

\* OrderBook.__init__
NewOrderBook == [bids |-> EmptyMap, asks |-> EmptyMap, orders |-> EmptyMap]

\* book = self.bids if order.side == "buy" else self.asks
SideOf(order) == IF order.side = "buy" THEN "bids" ELSE "asks"

(***************************************************************************)
(* A call in progress is a record m: the book of the order's symbol, the   *)
(* object store, the trade history, the trades of this call (with, per     *)
(* trade, the quantities read and written at lines 146-148) and the        *)
(* exception raised, "none" while the call runs.                           *)
(***************************************************************************)
Raise(m, exc) == [m EXCEPT !.raised = exc]

\* OrderBook.add_order
OrderBook_add_order(m, ref) ==
    LET order == m.heap[ref]
        m1 == [m EXCEPT !.book.orders = DictPut(@, order.id, ref)]
    IN  IF order.price = NoPrice THEN Raise(m1, "TypeError")
        ELSE
        LET price_key == normalize_price(order.price)
            side == SideOf(order)
            level == IF price_key \in DOMAIN m1.book[side]
                     THEN m1.book[side][price_key]
                     ELSE PriceLevel(price_key)
        IN  [m1 EXCEPT !.book[side] =
                DictPut(@, price_key, PriceLevel_add_order(level, ref, order))]

\* remove_order without line 58: the id stays in the index
OrderBook_remove_order_keeps_id(m, ref) ==
    LET order == m.heap[ref]
        price_key == normalize_price(order.price)
        side == SideOf(order)
    IN  IF price_key \in DOMAIN m.book[side]
        THEN LET level == PriceLevel_remove_order(
                              m.book[side][price_key], ref, order)
             IN  IF PriceLevel_is_empty(level)
                 THEN [m EXCEPT !.book[side] = DictDel(@, price_key)]
                 ELSE [m EXCEPT !.book[side][price_key] = level]
        ELSE m

\* remove_order without lines 56-57: an emptied level stays in the dict
OrderBook_remove_order_keeps_level(m, ref) ==
    LET order == m.heap[ref]
        price_key == normalize_price(order.price)
        side == SideOf(order)
        m1 == IF price_key \in DOMAIN m.book[side]
              THEN [m EXCEPT !.book[side][price_key] =
                       PriceLevel_remove_order(@, ref, order)]
              ELSE m
    IN  [m1 EXCEPT !.book.orders = DictDel(@, order.id)]

\* OrderBook.remove_order
OrderBook_remove_order(m, ref) ==
    LET order == m.heap[ref]
    IN  IF order.price = NoPrice THEN Raise(m, "TypeError")
        ELSE
        LET price_key == normalize_price(order.price)
            side == SideOf(order)
            m1 == IF price_key \in DOMAIN m.book[side]
                  THEN LET level == PriceLevel_remove_order(
                                        m.book[side][price_key], ref, order)
                       IN  IF PriceLevel_is_empty(level)
                           THEN [m EXCEPT !.book[side] = DictDel(@, price_key)]
                           ELSE [m EXCEPT !.book[side][price_key] = level]
                  ELSE m
        IN  [m1 EXCEPT !.book.orders = DictDel(@, order.id)]

\* OrderBook.get_best_bid (None is NoPrice)
get_best_bid(book) ==
    IF DOMAIN book.bids # {} THEN SetMax(DOMAIN book.bids) ELSE NoPrice

\* OrderBook.get_best_ask (None is NoPrice)
get_best_ask(book) ==
    IF DOMAIN book.asks # {} THEN SetMin(DOMAIN book.asks) ELSE NoPrice

\* ------------------------------------------------------------------ trade_log.py

\* models.Trade, as log_trade builds it (trade_id and timestamp left out)
Trade(symbol, price, quantity, aggressor_side, maker_order_id, taker_order_id) ==
    [symbol |-> symbol, price |-> price, quantity |-> quantity,
     aggressor_side |-> aggressor_side,
     maker_order_id |-> maker_order_id, taker_order_id |-> taker_order_id]

\* deque.append with the maxlen left out: nothing is evicted
deque_append_unbounded(dq, x) == Append(dq, x)

\* deque.append on a deque(maxlen=MaxLen): when full, the oldest goes
deque_append(dq, x) ==
    IF Len(dq) >= MaxLen THEN Append(Tail(dq), x) ELSE Append(dq, x)

\* symbol_trades[symbol] on the defaultdict: a missing key gets an empty deque
symbol_trades_getitem(st, symbol) ==
    IF symbol \in DOMAIN st THEN st ELSE DictPut(st, symbol, <<>>)

\* a log that puts the newest trade first: trade_history.insert(0, trade)
log_trade_front(m, trade) ==
    [m EXCEPT !.trade_history = <<trade>> \o @,
              !.symbol_trades =
                  DictPut(@, trade.symbol,
                          deque_append(
                              symbol_trades_getitem(@, trade.symbol)[trade.symbol],
                              trade))]

\* trade_log.log_trade: trade_history.append(trade) and
\* symbol_trades[symbol].append(trade) (lines 37-38)
log_trade(m, trade) ==
    [m EXCEPT !.trade_history = Append(@, trade),
              !.symbol_trades =
                  DictPut(@, trade.symbol,
                          deque_append(
                              symbol_trades_getitem(@, trade.symbol)[trade.symbol],
                              trade))]

\* ------------------------------------------------------------------ matching

\* a trade of the whole incoming quantity: traded_qty = order.quantity
traded_qty_incoming(order_quantity, resting_quantity) == order_quantity

\* traded_qty = min(order.quantity, resting_order.quantity)
traded_qty(order_quantity, resting_quantity) ==
    Min(order_quantity, resting_quantity)

\* one pass of the loop body of lines 142-161, for the resting order rref
MatchOne(m, ref, rref, price) ==
    LET order == m.heap[ref]
        resting_order == m.heap[rref]
        q == traded_qty(order.quantity, resting_order.quantity)
        trade == Trade(order.symbol, price, q, order.side,
                       resting_order.id, order.id)
        m1 == [m EXCEPT !.heap[ref].quantity = @ - q,
                        !.heap[rref].quantity = @ - q]
        fill == [quantity |-> q,
                 maker |-> rref, taker |-> ref,
                 maker_before |-> resting_order.quantity,
                 taker_before |-> order.quantity,
                 maker_after |-> m1.heap[rref].quantity,
                 taker_after |-> m1.heap[ref].quantity]
        m2 == [log_trade(m1, trade) EXCEPT !.trades = Append(@, trade),
                                           !.fills = Append(@, fill)]
    IN  IF m2.heap[rref].quantity <= 0
        THEN OrderBook_remove_order(m2, rref)
        ELSE m2

RECURSIVE MatchLevel(_, _, _, _, _)
\* for resting_order in level.orders[:]  (snap is the copy, j the position)
MatchLevel(m, ref, price, snap, j) ==
    IF j > Len(snap) \/ m.raised # "none" THEN m
    ELSE IF m.heap[ref].quantity <= 0 THEN m
    ELSE MatchLevel(MatchOne(m, ref, snap[j], price), ref, price, snap, j + 1)

\* level.is_empty() at line 163.  level is the object fetched at line 141:
\* it is the dict's value while the key is present, and remove_order drops
\* the key only when that object has no orders left.
LevelIsEmpty(m, opposite, price) ==
    IF price \in DOMAIN m.book[opposite]
    THEN PriceLevel_is_empty(m.book[opposite][price])
    ELSE TRUE

\* a price check that also stops at the limit itself: >= and <=
PriceStops_at_limit(order, price) ==
    \/ order.side = "buy" /\ price >= normalize_price(order.price)
    \/ order.side # "buy" /\ price <= normalize_price(order.price)

\* a price check that forgets the sell side
PriceStops_buy_only(order, price) ==
    order.side = "buy" /\ price > normalize_price(order.price)

\* the price check of lines 135-138 (the order has a price)
PriceStops(order, price) ==
    \/ order.side = "buy" /\ price > normalize_price(order.price)
    \/ order.side # "buy" /\ price < normalize_price(order.price)

\* price_levels of line 132
price_levels(book, order) ==
    IF order.side = "buy" THEN SortedAsc(DOMAIN book.asks)
    ELSE SortedDesc(DOMAIN book.bids)

\* lines 163-164: if level.is_empty(): del opposite_book[price]
DropEmptyLevel(m, opposite, price) ==
    IF ~LevelIsEmpty(m, opposite, price) THEN m
    ELSE IF price \notin DOMAIN m.book[opposite] THEN Raise(m, "KeyError")
    ELSE [m EXCEPT !.book[opposite] = DictDel(@, price)]

RECURSIVE MatchLevels(_, _, _, _, _)
RECURSIVE AfterLevel(_, _, _, _, _)
RECURSIVE AfterDrop(_, _, _, _, _)
\* for price in price_levels  (lines 134-141)
MatchLevels(m, ref, market, levels, i) ==
    IF i > Len(levels) THEN m
    ELSE
    LET order == m.heap[ref]
        price == levels[i]
        opposite == IF order.side = "buy" THEN "asks" ELSE "bids"
    IN  IF ~market /\ order.price = NoPrice THEN Raise(m, "TypeError")
        ELSE IF ~market /\ PriceStops(order, price) THEN m
        ELSE IF price \notin DOMAIN m.book[opposite] THEN Raise(m, "KeyError")
        ELSE AfterLevel(
                 MatchLevel(m, ref, price, m.book[opposite][price].orders, 1),
                 ref, market, levels, i)

\* the end of the outer loop body, after the inner loop (lines 163-167)
AfterLevel(m, ref, market, levels, i) ==
    IF m.raised # "none" THEN m
    ELSE AfterDrop(
             DropEmptyLevel(m, IF m.heap[ref].side = "buy" THEN "asks" ELSE "bids",
                            levels[i]),
             ref, market, levels, i)

\* lines 166-167: if order.quantity <= 0: break, else the next price
AfterDrop(m, ref, market, levels, i) ==
    IF m.raised # "none" THEN m
    ELSE IF m.heap[ref].quantity <= 0 THEN m
    ELSE MatchLevels(m, ref, market, levels, i + 1)

\* MatchingEngine._match_order
match_order(m, ref, market) ==
    MatchLevels(m, ref, market, price_levels(m.book, m.heap[ref]), 1)

\* MatchingEngine._execute_market_order
execute_market_order(m, ref) == match_order(m, ref, TRUE)

\* lines 124-125: if order.quantity > 0 and not ioc: book.add_order(order)
RestResidual(m, ref, ioc) ==
    IF m.raised # "none" THEN m
    ELSE IF m.heap[ref].quantity > 0 /\ ~ioc THEN OrderBook_add_order(m, ref)
    ELSE m

\* MatchingEngine._execute_limit_order
execute_limit_order(m, ref, ioc) ==
    RestResidual(match_order(m, ref, FALSE), ref, ioc)

RECURSIVE FillProbe(_, _, _, _, _)
\* the loops of _can_fully_fill over the sorted prices
FillProbe(side_levels, prices, i, total, order) ==
    IF i > Len(prices) THEN FALSE
    ELSE IF order.side = "buy" /\ prices[i] > normalize_price(order.price)
    THEN FALSE
    ELSE IF order.side # "buy" /\ prices[i] < normalize_price(order.price)
    THEN FALSE
    ELSE LET t == total + side_levels[prices[i]].total_quantity
         IN  IF t >= order.quantity THEN TRUE
             ELSE FillProbe(side_levels, prices, i + 1, t, order)

\* MatchingEngine._can_fully_fill (the order has a price)
can_fully_fill(book, order) ==
    IF order.side = "buy"
    THEN FillProbe(book.asks, SortedAsc(DOMAIN book.asks), 1, 0, order)
    ELSE FillProbe(book.bids, SortedDesc(DOMAIN book.bids), 1, 0, order)

\* MatchingEngine.process_order, on the call record m
process_order(m, ref) ==
    LET order == m.heap[ref]
    IN  IF order.order_type = "market" THEN execute_market_order(m, ref)
        ELSE IF order.order_type = "limit" THEN execute_limit_order(m, ref, FALSE)
        ELSE IF order.order_type = "ioc" THEN execute_limit_order(m, ref, TRUE)
        ELSE IF order.order_type = "fok"
        THEN IF order.price = NoPrice THEN Raise(m, "TypeError")
             ELSE IF can_fully_fill(m.book, order)
                  THEN execute_limit_order(m, ref, FALSE)
                  ELSE m
        ELSE m

\* ------------------------------------------------------------------ order_book.py

\* the values of the levels argument of get_depth that are tried
DepthLevels == {1, 10}

\* float('inf'), the price add_order gives a market buy
Inf == 1000000
\* log_trade(symbol, price, quantity, aggressor_side, maker_order_id,
\* taker_order_id): the number of its parameters, none with a default
LogTradeParams == 6

\* order.Order.__init__
order_Order(id, order_type, side, quantity, price) ==
    [id |-> id, symbol |-> Symbol, side |-> side, order_type |-> order_type,
     quantity |-> quantity, original_quantity |-> quantity, price |-> price,
     status |-> "new"]

\* order.Order.reduce_quantity
reduce_quantity(order, amount) ==
    LET q == IF order.quantity - amount > 0 THEN order.quantity - amount ELSE 0
    IN  [order EXCEPT !.quantity = q,
                      !.status = IF q = 0 THEN "filled"
                                 ELSE IF q < order.original_quantity
                                 THEN "partial" ELSE @]

\* order_book.OrderBook.__init__.  A heap is kept as the sorted list of its
\* entries: the program reads a heap's first entry, pops it, pushes, and
\* copies it, which the order inside the list does not affect.
ob_new ==
    [bids |-> EmptyMap, asks |-> EmptyMap, bid_prices |-> <<>>,
     ask_prices |-> <<>>, active_orders |-> EmptyMap]

RECURSIVE heappush(_, _)
\* heapq.heappush
heappush(h, x) ==
    IF h = <<>> THEN <<x>>
    ELSE IF x <= Head(h) THEN <<x>> \o h
    ELSE <<Head(h)>> \o heappush(Tail(h), x)

\* heapq.heappop, the heap that is left
heappop(h) == Tail(h)

\* defaultdict(deque).__getitem__: a missing key is created with an empty deque
Touch(d, k) == IF k \in DOMAIN d THEN d ELSE DictPut(d, k, <<>>)

\* OrderBook._can_match
ob_can_match(order, price) ==
    IF order.order_type = "market" THEN TRUE
    ELSE IF order.side = "buy" THEN order.price >= price
    ELSE order.price <= price

\* the call log_trade(*args) of line 102
ob_log_trade(b, args) ==
    IF Len(args) # LogTradeParams THEN Raise(b, "TypeError")
    ELSE log_trade(b, Trade(args[1], args[2], args[3], args[4], args[5], args[6]))

\* lines 105-112, after log_trade returned
ob_settle(b, ref, rref, trade_quantity, book_side, best_price) ==
    LET b1 == [b EXCEPT !.heap[ref] = reduce_quantity(@, trade_quantity),
                        !.heap[rref] = reduce_quantity(@, trade_quantity)]
    IN  IF b1.heap[rref].quantity = 0
        THEN [b1 EXCEPT !.book[book_side][best_price] = Tail(@),
                        !.book.active_orders = DictDel(@, b1.heap[rref].id)]
        ELSE b1

RECURSIVE ob_match_level(_, _, _, _)
RECURSIVE ob_after_log(_, _, _, _, _, _)
\* while orders_at_price and incoming_order.quantity > 0  (lines 91-102)
ob_match_level(b, ref, book_side, best_price) ==
    IF b.book[book_side][best_price] = <<>> \/ ~(b.heap[ref].quantity > 0)
    THEN b
    ELSE
    LET rref == Head(b.book[book_side][best_price])
        trade_quantity == Min(b.heap[ref].quantity, b.heap[rref].quantity)
        trade_price == b.heap[rref].price
        trade == <<ref, rref, trade_price, trade_quantity>>
    IN  ob_after_log(
            ob_log_trade([b EXCEPT !.trades = Append(@, trade)], trade),
            ref, rref, trade_quantity, book_side, best_price)

\* the rest of the inner loop body, once log_trade is over
ob_after_log(b, ref, rref, trade_quantity, book_side, best_price) ==
    IF b.raised # "none" THEN b
    ELSE ob_match_level(
             ob_settle(b, ref, rref, trade_quantity, book_side, best_price),
             ref, book_side, best_price)

\* lines 115-120: an emptied level leaves the heap and the dict
ob_clean_level(b, book_side, heap_side, best_price) ==
    IF b.book[book_side][best_price] = <<>>
    THEN [b EXCEPT !.book[heap_side] = heappop(@),
                   !.book[book_side] = DictDel(@, best_price)]
    ELSE b

RECURSIVE ob_match_loop(_, _)
RECURSIVE ob_after_level(_, _, _, _, _)
\* while incoming_order.quantity > 0 and opposite_prices  (lines 77-89)
ob_match_loop(b, ref) ==
    LET incoming_order == b.heap[ref]
        book_side == IF incoming_order.side = "buy" THEN "asks" ELSE "bids"
        heap_side == IF incoming_order.side = "buy"
                     THEN "ask_prices" ELSE "bid_prices"
    IN  IF ~(incoming_order.quantity > 0) \/ b.book[heap_side] = <<>> THEN b
        ELSE
        LET best_price == IF incoming_order.side = "buy"
                          THEN Head(b.book[heap_side])
                          ELSE 0 - Head(b.book[heap_side])
        IN  IF ~ob_can_match(incoming_order, best_price) THEN b
            ELSE ob_after_level(
                     ob_match_level(
                         [b EXCEPT !.book[book_side] = Touch(@, best_price)],
                         ref, book_side, best_price),
                     ref, book_side, heap_side, best_price)

\* the end of the outer loop body, and the next round
ob_after_level(b, ref, book_side, heap_side, best_price) ==
    IF b.raised # "none" THEN b
    ELSE ob_match_loop(ob_clean_level(b, book_side, heap_side, best_price), ref)

\* OrderBook._match_order
ob_match_order(b, ref) == ob_match_loop(b, ref)

\* OrderBook._add_to_book
ob_add_to_book(b, ref) ==
    LET order == b.heap[ref]
        book_side == IF order.side = "buy" THEN "bids" ELSE "asks"
        heap_side == IF order.side = "buy" THEN "bid_prices" ELSE "ask_prices"
        entry == IF order.side = "buy" THEN 0 - order.price ELSE order.price
        b1 == [b EXCEPT !.book.active_orders = DictPut(@, order.id, ref)]
        b2 == IF order.price \notin DOMAIN b1.book[book_side]
              THEN [b1 EXCEPT !.book[heap_side] = heappush(@, entry)]
              ELSE b1
    IN  [b2 EXCEPT !.book[book_side] =
             DictPut(@, order.price, Touch(@, order.price)[order.price] \o <<ref>>)]

\* lines 31-36: a market order takes an extreme price
ob_market_price(b, ref) ==
    IF b.heap[ref].order_type = "market"
    THEN [b EXCEPT !.heap[ref].price = IF b.heap[ref].side = "buy" THEN Inf ELSE 0]
    ELSE b

RECURSIVE ob_filled(_)
\* sum(trade[3] for trade in trades)
ob_filled(trades) ==
    IF trades = <<>> THEN 0 ELSE Head(trades)[4] + ob_filled(Tail(trades))

\* lines 52-60: an ioc order drops what is left, a limit order rests it
ob_rest(b, ref) ==
    IF b.heap[ref].order_type = "ioc" /\ b.heap[ref].quantity > 0
    THEN [b EXCEPT !.heap[ref].quantity = 0]
    ELSE IF b.heap[ref].quantity > 0 /\ b.heap[ref].order_type = "limit"
    THEN ob_add_to_book(b, ref)
    ELSE b

\* lines 44-62 of add_order, after _match_order
ob_after_match(b, ref, original_quantity) ==
    IF b.raised # "none" THEN b
    ELSE IF b.heap[ref].order_type = "fok"
            /\ ob_filled(b.trades) < original_quantity
    THEN [b EXCEPT !.returned = <<>>]
    ELSE [ob_rest(b, ref) EXCEPT !.returned = b.trades]

\* OrderBook.add_order
ob_add_order(b, ref) ==
    ob_after_match(ob_match_order(ob_market_price(b, ref), ref), ref,
                   b.heap[ref].quantity)

\* OrderBook.cancel_order, for an id that is in active_orders
ob_cancel_order(b, ref) ==
    LET order == b.heap[ref]
        book_side == IF order.side = "buy" THEN "bids" ELSE "asks"
        left == ListRemove(b.book[book_side][order.price], ref)
        b1 == IF left = <<>>
              THEN [b EXCEPT !.book[book_side] = DictDel(@, order.price)]
              ELSE [b EXCEPT !.book[book_side][order.price] = left]
    IN  [b1 EXCEPT !.book.active_orders = DictDel(@, order.id),
                   !.heap[ref].status = "cancelled"]

\* a clean-up that pops nothing
ob_pop_stale_none(h, side, sign) == h

RECURSIVE ob_pop_stale(_, _, _)
\* the clean-up loops of get_bbo: pop the first entry while its price has
\* no orders (sign is -1 for the bid heap, 1 for the ask heap)
ob_pop_stale(h, side, sign) ==
    IF h # <<>> /\ (sign * Head(h) \notin DOMAIN side
                    \/ side[sign * Head(h)] = <<>>)
    THEN ob_pop_stale(heappop(h), side, sign)
    ELSE h

\* what get_bbo returns for one side: the first entry before the clean-up
\* when the loop pops nothing, the first entry after it otherwise
ob_best(h, side, sign) ==
    IF ob_pop_stale(h, side, sign) = h
    THEN IF h # <<>> THEN sign * Head(h) ELSE NoPrice
    ELSE IF ob_pop_stale(h, side, sign) # <<>>
         THEN sign * Head(ob_pop_stale(h, side, sign)) ELSE NoPrice

\* OrderBook.get_bbo, the value returned (None is NoPrice)
ob_get_bbo(book) ==
    [bid |-> ob_best(book.bid_prices, book.bids, 0 - 1),
     ask |-> ob_best(book.ask_prices, book.asks, 1)]

\* OrderBook.get_bbo, the book it leaves
ob_get_bbo_book(book) ==
    [book EXCEPT !.bid_prices = ob_pop_stale(@, book.bids, 0 - 1),
                 !.ask_prices = ob_pop_stale(@, book.asks, 1)]

RECURSIVE ob_level_quantity(_, _)
\* sum(order.quantity for order in self.bids[price])
ob_level_quantity(hp, orders) ==
    IF orders = <<>> THEN 0
    ELSE hp[Head(orders)].quantity + ob_level_quantity(hp, Tail(orders))

RECURSIVE ob_depth_walk(_, _, _, _, _, _, _)
\* the loops of get_depth over a copy of a heap
ob_depth_walk(hp, temp, side, sign, depth, seen, levels) ==
    IF temp = <<>> \/ ~(Len(depth) < levels) THEN depth
    ELSE
    LET price == sign * Head(temp)
    IN  IF price \in DOMAIN side /\ side[price] # <<>> /\ price \notin seen
           /\ ob_level_quantity(hp, side[price]) > 0
        THEN ob_depth_walk(hp, heappop(temp), side, sign,
                           Append(depth, <<price, ob_level_quantity(hp, side[price])>>),
                           seen \cup {price}, levels)
        ELSE ob_depth_walk(hp, heappop(temp), side, sign, depth, seen, levels)

\* OrderBook.get_depth
ob_get_depth(book, hp, levels) ==
    [bids |-> ob_depth_walk(hp, book.bid_prices, book.bids, 0 - 1, <<>>, {}, levels),
     asks |-> ob_depth_walk(hp, book.ask_prices, book.asks, 1, <<>>, {}, levels)]

\* ------------------------------------------------------------------ calls

\* models.Order(...): id from uuid4, here the construction count
Order(id, order_type, side, quantity, price) ==
    [id |-> id, symbol |-> Symbol, order_type |-> order_type, side |-> side,
     quantity |-> quantity, price |-> price,
     trigger_price |-> NoPrice, trigger_type |-> NoTrigger]

NoOrder == Order(0, "none", "none", 0, NoPrice)

\* MatchingEngine._get_order_book, without the registration
get_order_book(books, symbol) ==
    IF symbol \in DOMAIN books THEN books[symbol] ELSE NewOrderBook

\* the references a book holds: in its levels and in its id index
BookRefs(book) ==
    UNION {Range(book.bids[p].orders) : p \in DOMAIN book.bids}
    \cup UNION {Range(book.asks[p].orders) : p \in DOMAIN book.asks}
    \cup {book.orders[i] : i \in DOMAIN book.orders}

\* the objects still referenced once a call has returned
Collect(books, hp) ==
    LET live == UNION {BookRefs(books[s]) : s \in DOMAIN books}
    IN  [r \in DOMAIN hp \cap live |-> hp[r]]

NoCall ==
    [op |-> "none", symbol |-> Symbol, asked |-> NoOrder, order |-> NoOrder,
     order_id |-> 0,
     emitted |-> <<>>, fills |-> <<>>, raised |-> "none", value |-> "none"]

\* an order.Order that stands for no order
ob_NoOrder == order_Order(0, "none", "none", 0, NoPrice)

NoBBO == [bid |-> NoPrice, ask |-> NoPrice]

NoDepth == [bids |-> <<>>, asks |-> <<>>]

ob_NoCall ==
    [op |-> "none", asked |-> ob_NoOrder, order |-> ob_NoOrder, order_id |-> 0,
     returned |-> <<>>, raised |-> "none", value |-> "none",
     bbo |-> NoBBO, depth |-> NoDepth, levels |-> 0]

\* the two monitor_stop_orders tasks created at startup
Tasks == {1, 2}

\* the websockets that connect: two to the market data of Symbol, one to
\* the trade stream
MarketDataSockets == {1, 2}

TradeSockets == {3}

WebSockets == MarketDataSockets \cup TradeSockets

\* no HTTP request answered yet
NoReply ==
    [endpoint |-> "none", request |-> NoOrder, code |-> 0, status |-> "none",
     order_id |-> 0, trades |-> 0]

Init ==
    /\ order_books = EmptyMap
    /\ heap = EmptyMap
    /\ trade_history = <<>>
    /\ symbol_trades = EmptyMap
    /\ nextId = 0
    /\ submitted = EmptyMap
    /\ ret = NoCall
    /\ ob = ob_new
    /\ ob_heap = EmptyMap
    /\ ob_nextId = 0
    /\ ob_ret = ob_NoCall
    /\ stop_orders = <<>>
    /\ tasks = [t \in Tasks |-> "running"]
    /\ promotions = <<>>
    /\ reply = NoReply
    /\ market_data_connections = EmptyMap
    /\ trade_connections = <<>>
    /\ handlers = EmptyMap
    /\ received = [ws \in WebSockets |-> <<>>]
    /\ files = EmptyMap

\* a call on the book of symbol begins: nothing traded, nothing raised
Enter(symbol, hp) ==
    [book |-> get_order_book(order_books, symbol), heap |-> hp,
     trade_history |-> trade_history, symbol_trades |-> symbol_trades,
     trades |-> <<>>, fills |-> <<>>, raised |-> "none"]

\* a call ends: its effects on the book, the objects and the history stay
Leave(symbol, m) ==
    /\ order_books' = DictPut(order_books, symbol, m.book)
    /\ heap' = Collect(DictPut(order_books, symbol, m.book), m.heap)
    /\ trade_history' = m.trade_history
    /\ symbol_trades' = m.symbol_trades

\* what process_order(order) gave: the trade list, or an exception
Returned(order, m) ==
    [op |-> "process_order", symbol |-> order.symbol, asked |-> order,
     order |-> m.heap[order.id], order_id |-> order.id,
     emitted |-> m.trades, fills |-> m.fills, raised |-> m.raised,
     value |-> IF m.raised = "none" THEN "trades" ELSE "raised"]

\* the end of a process_order call
LeaveProcessOrder(order, m) ==
    /\ Leave(order.symbol, m)
    /\ ret' = Returned(order, m)

\* engine.process_order(order) for a newly constructed order
CallProcessOrder(order) ==
    LeaveProcessOrder(
        order,
        process_order(Enter(order.symbol, DictPut(heap, order.id, order)),
                      order.id))

\* an order as main.submit_order hands it to the engine: a market order
\* carries no price here, any other type has one (main.py line 117)
ProcessOrder ==
    /\ nextId < MaxOrders
    /\ \E order_type \in OrderTypes, side \in Sides, quantity \in Quantities,
          price \in RawPrices \cup {NoPrice} :
        /\ (order_type = "market") <=> (price = NoPrice)
        /\ CallProcessOrder(Order(nextId + 1, order_type, side, quantity, price))
        /\ nextId' = nextId + 1
        /\ submitted' = DictPut(submitted, nextId + 1, quantity)
        /\ UNCHANGED <<ob_vars, io_vars>>
        /\ UNCHANGED main_vars

\* self.order_books after a lookup through _get_order_book: an unknown
\* symbol gets a new book
order_books_registered(books, symbol) ==
    IF symbol \in DOMAIN books THEN books
    ELSE DictPut(books, symbol, NewOrderBook)

\* self.order_books after self.order_books.get(symbol): as it was
order_books_get(books, symbol) == books

\* cancel_order or get_order_status returns at its guard: nothing is touched
LeaveNotFound(op, symbol, order_id, value) ==
    /\ order_books' = order_books_get(order_books, symbol)
    /\ heap' = Collect(order_books_get(order_books, symbol), heap)
    /\ UNCHANGED <<trade_history, symbol_trades>>
    /\ ret' = [NoCall EXCEPT !.op = op,
                             !.symbol = symbol,
                             !.order_id = order_id,
                             !.value = value]

\* the end of a cancel_order call that found the id: line 199 returns what
\* OrderBook.remove_order returns, which is None
LeaveCancelOrder(symbol, order_id, m) ==
    /\ Leave(symbol, m)
    /\ ret' = [NoCall EXCEPT
                 !.op = "cancel_order",
                 !.symbol = symbol,
                 !.order_id = order_id,
                 !.order = heap[order_books[symbol].orders[order_id]],
                 !.raised = m.raised,
                 !.value = IF m.raised = "none" THEN "None" ELSE "raised"]

\* MatchingEngine.cancel_order(symbol, order_id), for a symbol of symbols
\* and an id of ids
CancelOrderOf(symbols, ids) ==
    \E symbol \in symbols, order_id \in ids :
        /\ UNCHANGED <<nextId, submitted>>
        /\ UNCHANGED <<ob_vars, io_vars>>
        /\ UNCHANGED main_vars
        /\ IF symbol \notin DOMAIN order_books
              \/ order_id \notin DOMAIN order_books[symbol].orders
           THEN LeaveNotFound("cancel_order", symbol, order_id, "False")
           ELSE LeaveCancelOrder(
                    symbol, order_id,
                    OrderBook_remove_order(Enter(symbol, heap),
                                           order_books[symbol].orders[order_id]))

\* MatchingEngine.cancel_order(symbol, order_id)
CancelOrder == CancelOrderOf(Symbols, 1..MaxOrders)

\* MatchingEngine.get_order_status(symbol, order_id)
GetOrderStatus ==
    \E symbol \in Symbols, order_id \in 1..MaxOrders :
        /\ UNCHANGED <<nextId, submitted>>
        /\ UNCHANGED <<ob_vars, io_vars>>
        /\ UNCHANGED main_vars
        /\ IF symbol \notin DOMAIN order_books
              \/ order_id \notin DOMAIN order_books[symbol].orders
           THEN LeaveNotFound("get_order_status", symbol, order_id, "None")
           ELSE /\ UNCHANGED <<order_books, heap, trade_history, symbol_trades>>
                /\ ret' = [NoCall EXCEPT
                             !.op = "get_order_status",
                             !.symbol = symbol,
                             !.order_id = order_id,
                             !.order = heap[order_books[symbol].orders[order_id]],
                             !.value = "order"]

Next == ProcessOrder \/ CancelOrder \/ GetOrderStatus

Spec == Init /\ [][Next]_vars

\* engine.process_order(order) called directly with a limit, ioc or fok
\* order that carries no price
ProcessOrderNoPrice ==
    /\ nextId < MaxOrders
    /\ \E order_type \in {"limit", "ioc", "fok"}, side \in Sides,
          quantity \in Quantities :
        /\ CallProcessOrder(Order(nextId + 1, order_type, side, quantity, NoPrice))
        /\ submitted' = DictPut(submitted, nextId + 1, quantity)
    /\ nextId' = nextId + 1
    /\ UNCHANGED <<ob_vars, io_vars>>
    /\ UNCHANGED main_vars

NextDirect == ProcessOrder \/ ProcessOrderNoPrice

\* the engine called directly, with and without prices
SpecDirect == Init /\ [][NextDirect]_vars

\* ------------------------------------------------------------------ main.py, stop_orders.py

\* an order_type outside the four the engine knows
UnknownType == "stop"

\* the quantities a request may carry: quantity is a float, unchecked
RequestQuantities == (0 - 1)..MaxQty

\* the prices a request may carry, whole ticks
RequestPrices == {t * SubTick : t \in 1..MaxTick}

\* the trigger price a conditional order may carry: the highest tick, which
\* a best price can reach or stay under
StopPrices == {MaxTick * SubTick}

\* the limit price a conditional order may carry: the lowest tick, at which
\* a promoted buy rests under the ask that fired it
StopLimitPrices == {SubTick}

\* the quantity of a conditional order
StopQuantities == {1}

TriggerTypes == {"stop_loss", "take_profit", "stop_limit"}

\* models.Order(...) with the trigger fields of a conditional order
ConditionalOrder(id, order_type, side, quantity, price, trigger_price, trigger_type) ==
    [Order(id, order_type, side, quantity, price) EXCEPT
        !.trigger_price = trigger_price, !.trigger_type = trigger_type]

\* MatchingEngine.get_bbo, without the timestamp
get_bbo(books, symbol) ==
    IF symbol \notin DOMAIN books THEN [bid |-> NoPrice, ask |-> NoPrice]
    ELSE [bid |-> get_best_bid(books[symbol]),
          ask |-> get_best_ask(books[symbol])]

\* the trigger prices should_trigger is asked about: each tick and the
\* midpoint between the first two
TriggerPrices == RequestPrices \cup {SubTick + SubTick \div 2}

\* what a side of the BBO may be: absent or a whole tick
BBOPrices == {NoPrice} \cup RequestPrices

\* not x, for an Optional[float]: None and 0.0 are false
NotPrice(x) == x = NoPrice \/ x = 0

\* not x, for an Optional[str]: None and "" are false
NotTrigger(x) == x = NoTrigger \/ x = ""

\* stop_orders.should_trigger with the stop_limit comparisons reversed
should_trigger_reversed(order, bbo) ==
    IF NotPrice(order.trigger_price) \/ NotTrigger(order.trigger_type) THEN FALSE
    ELSE IF order.trigger_type \in {"stop_loss", "take_profit"}
    THEN \/ order.side = "sell" /\ bbo.bid # NoPrice
            /\ (IF order.trigger_type = "stop_loss"
                THEN bbo.bid <= order.trigger_price
                ELSE bbo.bid >= order.trigger_price)
         \/ order.side = "buy" /\ bbo.ask # NoPrice
            /\ (IF order.trigger_type = "stop_loss"
                THEN bbo.ask >= order.trigger_price
                ELSE bbo.ask <= order.trigger_price)
    ELSE IF order.trigger_type = "stop_limit"
    THEN \/ order.side = "buy" /\ bbo.ask # NoPrice
            /\ bbo.ask <= order.trigger_price
         \/ order.side = "sell" /\ bbo.bid # NoPrice
            /\ bbo.bid >= order.trigger_price
    ELSE FALSE

\* stop_orders.should_trigger
should_trigger(order, bbo) ==
    IF NotPrice(order.trigger_price) \/ NotTrigger(order.trigger_type) THEN FALSE
    ELSE IF order.trigger_type = "stop_loss"
    THEN \/ order.side = "sell" /\ bbo.bid # NoPrice
            /\ bbo.bid <= order.trigger_price
         \/ order.side = "buy" /\ bbo.ask # NoPrice
            /\ bbo.ask >= order.trigger_price
    ELSE IF order.trigger_type = "take_profit"
    THEN \/ order.side = "sell" /\ bbo.bid # NoPrice
            /\ bbo.bid >= order.trigger_price
         \/ order.side = "buy" /\ bbo.ask # NoPrice
            /\ bbo.ask <= order.trigger_price
    ELSE IF order.trigger_type = "stop_limit"
    THEN \/ order.side = "buy" /\ bbo.ask # NoPrice
            /\ bbo.ask >= order.trigger_price
         \/ order.side = "sell" /\ bbo.bid # NoPrice
            /\ bbo.bid <= order.trigger_price
    ELSE FALSE

RECURSIVE to_trigger(_, _)
\* lines 57-61: the pending orders whose trigger holds, in pending order
to_trigger(orders, bbo) ==
    IF orders = <<>> THEN <<>>
    ELSE (IF should_trigger(Head(orders), bbo) THEN <<Head(orders)>> ELSE <<>>)
         \o to_trigger(Tail(orders), bbo)

\* lines 67-69, with the queued id kept
Transform_keeps_id(order, fresh) ==
    [order EXCEPT !.trigger_price = NoPrice, !.trigger_type = NoTrigger]

\* lines 67-69: the trigger fields are cleared and the id replaced
Transform(order, fresh) ==
    [order EXCEPT !.trigger_price = NoPrice, !.trigger_type = NoTrigger,
                  !.id = fresh]

\* the watcher's state inside one pass: the engine call record m of the
\* last process_order, the pending list, the ids given out, the quantities
\* submitted, the calls made, the last call
Watch(m, pending, next, quantities, calls, last) ==
    [m |-> m, pending |-> pending, next |-> next, quantities |-> quantities,
     calls |-> calls, last |-> last]

\* the call record of a new process_order call on what the last one left
NextCall(m, hp) ==
    [book |-> m.book, heap |-> hp, trade_history |-> m.trade_history,
     symbol_trades |-> m.symbol_trades,
     trades |-> <<>>, fills |-> <<>>, raised |-> "none"]

\* line 70, engine.process_order(order), recorded with the pending list as
\* it is at the call and the book before and after it
Promoted(w, task, queued, order, m) ==
    Watch(m, w.pending, w.next + 1,
          DictPut(w.quantities, order.id, order.quantity),
          Append(w.calls, [task |-> task, queued |-> queued, order |-> order,
                           pending |-> w.pending, raised |-> m.raised,
                           before |-> w.m.book, after |-> m.book,
                           trades |-> m.trades]),
          Returned(order, m))

\* lines 64-70 for one order of to_trigger
PromoteOne(w, task, queued, order) ==
    Promoted([w EXCEPT !.pending = ListRemove(@, queued)], task, queued, order,
             process_order(NextCall(w.m, DictPut(w.m.heap, order.id, order)),
                           order.id))

RECURSIVE PromoteAll(_, _, _)
\* for order in to_trigger (lines 63-70); an exception ends the pass
PromoteAll(w, task, todo) ==
    IF todo = <<>> \/ w.m.raised # "none" THEN w
    ELSE PromoteAll(
             PromoteOne(w, task, Head(todo), Transform(Head(todo), w.next + 1)),
             task, Tail(todo))

\* an HTTP error reply to the request that carried order
Failed(endpoint, order, code) ==
    [NoReply EXCEPT !.endpoint = endpoint, !.request = order, !.code = code,
                    !.status = "error"]

\* an OrderResponse to the request that carried order
OrderResponse(endpoint, order, trades, status) ==
    [endpoint |-> endpoint, request |-> order, code |-> 200, status |-> status,
     order_id |-> order.id, trades |-> trades]

\* submit_order ends: the trade count is returned, or the exception of
\* process_order is turned into a 500 at lines 136-138
LeaveSubmitOrder(order, m) ==
    /\ LeaveProcessOrder(order, m)
    /\ reply' = IF m.raised # "none" THEN Failed("submit_order", order, 500)
                ELSE OrderResponse("submit_order", order, Len(m.trades),
                                   "accepted")

\* main.submit_order with no websocket connected: the two broadcasts return
\* without suspending, so the handler runs in one piece.  The 400 of line
\* 118 is raised inside the try and leaves as a 500.
SubmitOrderOf(order_types, quantities) ==
    /\ nextId < MaxOrders
    /\ \E order_type \in order_types, side \in Sides,
          quantity \in quantities,
          price \in RequestPrices \cup {NoPrice} :
        /\ order_type = "market" => price = NoPrice
        /\ IF order_type # "market" /\ price = NoPrice
           THEN /\ reply' = Failed("submit_order",
                                   Order(nextId + 1, order_type, side, quantity,
                                         price),
                                   500)
                /\ UNCHANGED <<order_books, heap, trade_history, symbol_trades, ret>>
           ELSE LeaveSubmitOrder(
                    Order(nextId + 1, order_type, side, quantity, price),
                    process_order(
                        Enter(Symbol,
                              DictPut(heap, nextId + 1,
                                      Order(nextId + 1, order_type, side,
                                            quantity, price))),
                        nextId + 1))
        /\ submitted' = DictPut(submitted, nextId + 1, quantity)
    /\ nextId' = nextId + 1
    /\ UNCHANGED <<stop_orders, tasks, promotions>>
    /\ UNCHANGED <<ob_vars, io_vars>>

\* main.submit_order with any order type and any quantity
SubmitOrder == SubmitOrderOf(OrderTypes \cup {UnknownType}, RequestQuantities)

\* stop_orders.add_stop_order
add_stop_order(pending, order) == Append(pending, order)

\* the body of submit_stop_order
LeaveSubmitStopOrder(order) ==
    IF NotPrice(order.trigger_price) \/ NotTrigger(order.trigger_type)
    THEN /\ reply' = Failed("submit_stop_order", order, 400)
         /\ UNCHANGED stop_orders
    ELSE IF order.order_type \notin {"limit", "market"}
    THEN /\ reply' = Failed("submit_stop_order", order, 400)
         /\ UNCHANGED stop_orders
    ELSE /\ stop_orders' = add_stop_order(stop_orders, order)
         /\ reply' = OrderResponse("submit_stop_order", order, 0, "queued")

\* main.submit_stop_order
SubmitStopOrder ==
    /\ nextId < MaxOrders
    /\ \E order_type \in {"market", "limit", "ioc"}, side \in Sides,
          quantity \in StopQuantities,
          price \in StopLimitPrices \cup {NoPrice},
          trigger_price \in StopPrices \cup {NoPrice},
          trigger_type \in TriggerTypes \cup {NoTrigger} :
        /\ order_type = "limit" \/ price = NoPrice
        /\ LeaveSubmitStopOrder(
               ConditionalOrder(nextId + 1, order_type, side, quantity, price,
                                trigger_price, trigger_type))
    /\ nextId' = nextId + 1
    /\ UNCHANGED <<order_books, heap, trade_history, symbol_trades, submitted, ret>>
    /\ UNCHANGED <<tasks, promotions>>
    /\ UNCHANGED <<ob_vars, io_vars>>

\* one pass of a watcher ends, at the sleep of line 71 or with the
\* exception of a process_order call, which ends the task
LeaveWatch(task, w) ==
    /\ stop_orders' = w.pending
    /\ nextId' = w.next
    /\ submitted' = w.quantities
    /\ promotions' = w.calls
    /\ ret' = w.last
    /\ tasks' = IF w.m.raised # "none" THEN [tasks EXCEPT ![task] = "dead"]
                ELSE tasks
    /\ IF w.calls = promotions
       THEN UNCHANGED <<order_books, heap, trade_history, symbol_trades>>
       ELSE Leave(Symbol, w.m)

\* one pass of the while loop of monitor_stop_orders in one of the tasks,
\* between two sleeps
MonitorStopOrdersBy(task) ==
    /\ tasks[task] = "running"
    /\ LeaveWatch(
           task,
           PromoteAll(
               Watch(Enter(Symbol, heap), stop_orders, nextId, submitted,
                     promotions, ret),
               task,
               to_trigger(stop_orders, get_bbo(order_books, Symbol))))
    /\ UNCHANGED reply
    /\ UNCHANGED <<ob_vars, io_vars>>

\* one pass of the while loop of monitor_stop_orders, between two sleeps
MonitorStopOrders == \E task \in Tasks : MonitorStopOrdersBy(task)

NextMain == SubmitOrder \/ SubmitStopOrder \/ MonitorStopOrders

SpecMain == Init /\ [][NextMain]_vars

\* cancel_order(Symbol, id) for an id that was given out, as queued id of a
\* conditional order or as id of a submitted or promoted order
CancelIssued ==
    /\ nextId > 0
    /\ CancelOrderOf({Symbol}, 1..nextId)

\* main.submit_order with a limit order of a positive quantity
SubmitLimitOrder == SubmitOrderOf({"limit"}, 1..MaxQty)

NextCancel ==
    SubmitLimitOrder \/ SubmitStopOrder \/ MonitorStopOrders \/ CancelIssued

\* limit orders, conditional orders and the watcher, with cancel_order
\* called on the engine
SpecCancel == Init /\ [][NextCancel]_vars

\* the same, with every task that is alive waking from its sleep of line 71
\* again and again
SpecMainFair ==
    SpecMain /\ \A task \in Tasks : WF_vars(MonitorStopOrdersBy(task))

\* should_trigger(order, bbo) called on a conditional order and a BBO
ShouldTrigger ==
    /\ \E side \in Sides, order_type \in {"market", "limit"},
          trigger_type \in TriggerTypes, trigger_price \in TriggerPrices,
          bid \in BBOPrices, ask \in BBOPrices :
            ret' = [op |-> "should_trigger",
                    asked |-> ConditionalOrder(0, order_type, side, 1,
                                  IF order_type = "limit" THEN trigger_price
                                  ELSE NoPrice,
                                  trigger_price, trigger_type),
                    bbo |-> [bid |-> bid, ask |-> ask],
                    value |-> should_trigger(
                                  ConditionalOrder(0, order_type, side, 1,
                                      IF order_type = "limit" THEN trigger_price
                                      ELSE NoPrice,
                                      trigger_price, trigger_type),
                                  [bid |-> bid, ask |-> ask])]
    /\ UNCHANGED <<order_books, heap, trade_history, symbol_trades, nextId, submitted>>
    /\ UNCHANGED <<ob_vars, main_vars, io_vars>>

NextTrigger == ShouldTrigger

\* should_trigger on every conditional order and BBO of the bounds
SpecTrigger == Init /\ [][NextTrigger]_vars

\* the values of the levels argument of get_order_book_depth that are
\* tried: none, one, and the default
EngineDepthLevels == {0, 1, 10}

\* rows[:levels], for a list of rows
SliceTo(rows, levels) ==
    SubSeq(rows, 1,
           IF levels >= 0 THEN Min(levels, Len(rows))
           ELSE IF Len(rows) + levels > 0 THEN Len(rows) + levels ELSE 0)

\* [[price, level.total_quantity] for price, level in ...] (lines 70-71)
DepthRows(side_levels, prices) ==
    [k \in 1..Len(prices) |->
        <<prices[k], side_levels[prices[k]].total_quantity>>]

\* OrderBook.get_depth with the levels argument ignored
get_depth_all(book, levels) ==
    [bids |-> DepthRows(book.bids, SortedDesc(DOMAIN book.bids)),
     asks |-> DepthRows(book.asks, SortedAsc(DOMAIN book.asks))]

\* OrderBook.get_depth
get_depth(book, levels) ==
    [bids |-> DepthRows(book.bids,
                        SliceTo(SortedDesc(DOMAIN book.bids), levels)),
     asks |-> DepthRows(book.asks,
                        SliceTo(SortedAsc(DOMAIN book.asks), levels))]

\* MatchingEngine.get_order_book_depth, without the timestamp
get_order_book_depth(books, symbol, levels) ==
    IF symbol \notin DOMAIN books THEN NoDepth
    ELSE get_depth(books[symbol], levels)

\* get_bbo or get_order_book_depth returns: the registry is as
\* self.order_books.get left it
LeaveQuery(op, symbol, levels, bbo, depth) ==
    /\ order_books' = order_books_get(order_books, symbol)
    /\ heap' = Collect(order_books_get(order_books, symbol), heap)
    /\ UNCHANGED <<trade_history, symbol_trades>>
    /\ ret' = [op |-> op, symbol |-> symbol, levels |-> levels, bbo |-> bbo,
               depth |-> depth, order_id |-> 0, value |-> "dict"]

\* MatchingEngine.get_bbo(symbol)
GetBBO ==
    \E symbol \in Symbols :
        /\ LeaveQuery("get_bbo", symbol, 0, get_bbo(order_books, symbol),
                      NoDepth)
        /\ UNCHANGED <<nextId, submitted>>
        /\ UNCHANGED <<ob_vars, io_vars>>
        /\ UNCHANGED main_vars

\* MatchingEngine.get_order_book_depth(symbol, levels)
GetOrderBookDepth ==
    \E symbol \in Symbols, levels \in EngineDepthLevels :
        /\ LeaveQuery("get_order_book_depth", symbol, levels, NoBBO,
                      get_order_book_depth(order_books, symbol, levels))
        /\ UNCHANGED <<nextId, submitted>>
        /\ UNCHANGED <<ob_vars, io_vars>>
        /\ UNCHANGED main_vars

NextQuery == ProcessOrder \/ GetBBO \/ GetOrderBookDepth \/ GetOrderStatus

\* the engine with its three queries
SpecQuery == Init /\ [][NextQuery]_vars

\* ------------------------------------------------------------------ calls on trade_log

\* the trades log_trade is called for directly
MaxTrades == MaxLen + 2

\* the limit arguments of get_recent_trades that are tried
Limits == 0..(MaxLen + 1)

\* xs[::-1]
Reversed(xs) == [k \in 1..Len(xs) |-> xs[Len(xs) + 1 - k]]

\* xs[-n:] for n >= 0: -0 is 0, so n = 0 starts at the front
SliceLast(xs, n) ==
    IF n = 0 THEN xs
    ELSE SubSeq(xs, (IF Len(xs) > n THEN Len(xs) - n ELSE 0) + 1, Len(xs))

\* trade_log.get_recent_trades
get_recent_trades(st, symbol, limit) ==
    IF symbol \notin DOMAIN st THEN <<>>
    ELSE Reversed(SliceLast(st[symbol], limit))

\* log_trade(symbol, price, quantity, aggressor_side, maker, taker) called
\* on the recorder
LogTrade ==
    /\ Len(trade_history) < MaxTrades
    /\ \E symbol \in Symbols, price \in RequestPrices :
        /\ trade_history' =
               log_trade([trade_history |-> trade_history,
                          symbol_trades |-> symbol_trades],
                         Trade(symbol, price, 1, "buy", 1, 2)).trade_history
        /\ symbol_trades' =
               log_trade([trade_history |-> trade_history,
                          symbol_trades |-> symbol_trades],
                         Trade(symbol, price, 1, "buy", 1, 2)).symbol_trades
        /\ ret' = [op |-> "log_trade", symbol |-> symbol, limit |-> 0,
                   trade |-> Trade(symbol, price, 1, "buy", 1, 2),
                   value |-> <<>>]
    /\ UNCHANGED <<order_books, heap, nextId, submitted>>
    /\ UNCHANGED <<ob_vars, io_vars>>
    /\ UNCHANGED main_vars

\* get_recent_trades(symbol, limit), as GET /trades/{symbol}?limit= calls it
GetRecentTrades ==
    /\ \E symbol \in Symbols, limit \in Limits :
        ret' = [op |-> "get_recent_trades", symbol |-> symbol, limit |-> limit,
                trade |-> Trade(symbol, 0, 0, "none", 0, 0),
                value |-> get_recent_trades(symbol_trades, symbol, limit)]
    /\ UNCHANGED <<order_books, heap, trade_history, symbol_trades, nextId,
                   submitted>>
    /\ UNCHANGED <<ob_vars, io_vars>>
    /\ UNCHANGED main_vars

NextTradeLog == LogTrade \/ GetRecentTrades

\* the trade recorder: trades logged and recent trades read
SpecTradeLog == Init /\ [][NextTradeLog]_vars

\* ------------------------------------------------------------------ persistence_utils.py

\* the content of a file that json.load cannot read
Corrupt == "corrupt"

RECURSIVE Positive(_, _, _)
\* [o.dict() for o in book.orders.values() if o.quantity > 0] (line 12):
\* the index in insertion order, which is the order of the ids
Positive(book, hp, ids) ==
    IF ids = <<>> THEN <<>>
    ELSE (IF hp[book.orders[Head(ids)]].quantity > 0
          THEN <<hp[book.orders[Head(ids)]]>> ELSE <<>>)
         \o Positive(book, hp, Tail(ids))

\* json.dump(orders, f, indent=2) on the file opened for writing (lines
\* 13-14): each dict holds the UUID and the datetime of the order, which
\* the encoder refuses, with the file begun and not ended
json_dump(orders) ==
    IF orders = <<>> THEN [text |-> <<>>, raised |-> "none"]
    ELSE [text |-> Corrupt, raised |-> "TypeError"]

\* the file of one symbol written; the exception of json.dump leaves
\* save_order_book_state with the other symbols unsaved
Dumped(fs, symbol, dumped) ==
    [files |-> DictPut(fs, symbol, dumped.text), raised |-> dumped.raised]

RECURSIVE save_order_book_state(_, _, _, _)
\* persistence_utils.save_order_book_state, for the symbols still to save
save_order_book_state(books, hp, saved, symbols) ==
    IF symbols = {} \/ saved.raised # "none" THEN saved
    ELSE save_order_book_state(
             books, hp,
             Dumped(saved.files, CHOOSE s \in symbols : TRUE,
                    json_dump(Positive(
                        books[CHOOSE s \in symbols : TRUE], hp,
                        SortedAsc(DOMAIN books[CHOOSE s \in symbols : TRUE].orders)))),
             symbols \ {CHOOSE s \in symbols : TRUE})

\* MatchingEngine() of a new process, with the recorder's lists empty
FreshEngine ==
    [order_books |-> EmptyMap, heap |-> EmptyMap, trade_history |-> <<>>,
     symbol_trades |-> EmptyMap, raised |-> "none"]

\* the call record of engine.process_order(order) on the engine e
EngineCall(e, order) ==
    [book |-> get_order_book(e.order_books, order.symbol),
     heap |-> DictPut(e.heap, order.id, order),
     trade_history |-> e.trade_history, symbol_trades |-> e.symbol_trades,
     trades |-> <<>>, fills |-> <<>>, raised |-> "none"]

\* the engine e after that call
EngineAfter(e, order, m) ==
    [order_books |-> DictPut(e.order_books, order.symbol, m.book),
     heap |-> m.heap, trade_history |-> m.trade_history,
     symbol_trades |-> m.symbol_trades, raised |-> m.raised]

RECURSIVE LoadFile(_, _)
\* lines 23-26: each order of a file goes through process_order, in file
\* order; an exception ends the file
LoadFile(e, orders) ==
    IF orders = <<>> \/ e.raised # "none" THEN e
    ELSE LoadFile(EngineAfter(e, Head(orders),
                              process_order(EngineCall(e, Head(orders)),
                                            Head(orders).id)),
                  Tail(orders))

RECURSIVE load_order_book_state(_, _, _)
\* persistence_utils.load_order_book_state, for the files still to read: a
\* file json.load cannot read is skipped, and so is the rest of a file
\* after an exception
load_order_book_state(e, fs, symbols) ==
    IF symbols = {} THEN e
    ELSE load_order_book_state(
             IF fs[CHOOSE s \in symbols : TRUE] = Corrupt THEN e
             ELSE [LoadFile(e, fs[CHOOSE s \in symbols : TRUE])
                      EXCEPT !.raised = "none"],
             fs, symbols \ {CHOOSE s \in symbols : TRUE})

\* the new process after main.startup: the engine as the files gave it,
\* no conditional order pending, no websocket connected, both watcher
\* tasks running
LeaveStartup(saved, e) ==
    /\ files' = saved.files
    /\ order_books' = e.order_books
    /\ heap' = Collect(e.order_books, e.heap)
    /\ trade_history' = e.trade_history
    /\ symbol_trades' = e.symbol_trades
    /\ stop_orders' = <<>>
    /\ tasks' = [t \in Tasks |-> "running"]
    /\ market_data_connections' = EmptyMap
    /\ trade_connections' = <<>>
    /\ handlers' = EmptyMap
    /\ ret' = [op |-> "restart", raised |-> saved.raised]

\* main.shutdown followed by main.startup of the next process (lines
\* 429-436)
Restart ==
    /\ LeaveStartup(
           save_order_book_state(order_books, heap,
                                 [files |-> files, raised |-> "none"],
                                 DOMAIN order_books),
           load_order_book_state(
               FreshEngine,
               save_order_book_state(order_books, heap,
                                     [files |-> files, raised |-> "none"],
                                     DOMAIN order_books).files,
               DOMAIN save_order_book_state(
                          order_books, heap,
                          [files |-> files, raised |-> "none"],
                          DOMAIN order_books).files))
    /\ UNCHANGED <<nextId, submitted, promotions, reply, received>>
    /\ UNCHANGED ob_vars

NextRestart == ProcessOrder \/ Restart

\* the engine, stopped and started again at any time
SpecRestart == Init /\ [][NextRestart]_vars

\* ------------------------------------------------------------------ main.py, websockets

\* models.L2Snapshot as broadcast_market_data builds it, without the
\* timestamp; cause is the id of the order whose handler took it, 0 for the
\* snapshot sent when a websocket connects
L2Snapshot(cause, depth) ==
    [type |-> "l2", cause |-> cause, bids |-> depth.bids, asks |-> depth.asks]

\* trade.json() as broadcast_trade sends it
TradeMessage(trade) ==
    [type |-> "trade", cause |-> trade.taker_order_id, trade |-> trade]

\* the order types and quantities of the orders submitted while websockets
\* are connected
StreamTypes == {"limit", "market"}

StreamQuantities == 1..MaxQty

\* the submit_order coroutine for order, before its first await
Coroutine(order, trades, snapshot) ==
    [order |-> order, trades |-> trades, snapshot |-> snapshot,
     pc |-> "done", i |-> 0, t |-> 0, j |-> 0]

\* lines 131-132 from trade t on: broadcast_trade returns at once without
\* trade websockets (line 94), else the coroutine awaits the first send
AtTrade(h, t, connections) ==
    IF t > Len(h.trades) \/ connections = <<>> THEN [h EXCEPT !.pc = "done"]
    ELSE [h EXCEPT !.pc = "trade", !.t = t, !.j = 1]

\* line 82 from websocket i of the symbol on: the coroutine awaits the send
\* to it, or goes on to the trades
AtMarketData(h, i, connections, trade_sockets) ==
    IF i > Len(connections) THEN AtTrade(h, 1, trade_sockets)
    ELSE [h EXCEPT !.pc = "market_data", !.i = i]

\* connection_manager.broadcast_market_data(symbol) up to its first await
\* (lines 67-84), then the trades
Broadcasts(h, symbol, md, trade_sockets) ==
    IF symbol \notin DOMAIN md THEN AtTrade(h, 1, trade_sockets)
    ELSE AtMarketData(h, 1, md[symbol], trade_sockets)

\* the coroutine h goes on: it is suspended in its next await, or it
\* returns the OrderResponse of line 134
Continue(h) ==
    IF h.pc = "done"
    THEN /\ handlers' = DictDel(handlers, h.order.id)
         /\ reply' = OrderResponse("submit_order", h.order, Len(h.trades),
                                   "accepted")
    ELSE /\ handlers' = DictPut(handlers, h.order.id, h)
         /\ UNCHANGED reply

\* submit_order after engine.process_order: the exception leaves as a 500,
\* else the snapshot of the book is taken and the broadcasts begin
LeaveAdmit(order, m) ==
    /\ LeaveProcessOrder(order, m)
    /\ IF m.raised # "none"
       THEN /\ reply' = Failed("submit_order", order, 500)
            /\ UNCHANGED handlers
       ELSE Continue(Broadcasts(
                Coroutine(order, m.trades,
                          L2Snapshot(order.id, get_depth(m.book, 10))),
                order.symbol, market_data_connections, trade_connections))

\* main.submit_order from the request to its first await (lines 113-128):
\* the check of the price, engine.process_order, and the snapshot
Admit ==
    /\ nextId < MaxOrders
    /\ \E order_type \in StreamTypes, side \in Sides,
          quantity \in StreamQuantities,
          price \in RequestPrices \cup {NoPrice} :
        /\ order_type = "market" => price = NoPrice
        /\ IF order_type # "market" /\ price = NoPrice
           THEN /\ reply' = Failed("submit_order",
                                   Order(nextId + 1, order_type, side, quantity,
                                         price),
                                   500)
                /\ UNCHANGED <<order_books, heap, trade_history, symbol_trades,
                               ret, handlers>>
           ELSE LeaveAdmit(
                    Order(nextId + 1, order_type, side, quantity, price),
                    process_order(
                        Enter(Symbol,
                              DictPut(heap, nextId + 1,
                                      Order(nextId + 1, order_type, side,
                                            quantity, price))),
                        nextId + 1))
        /\ submitted' = DictPut(submitted, nextId + 1, quantity)
    /\ nextId' = nextId + 1
    /\ UNCHANGED <<stop_orders, tasks, promotions>>
    /\ UNCHANGED <<market_data_connections, trade_connections, received, files>>
    /\ UNCHANGED ob_vars

\* websocket.send_text(text) returns: the websocket has the message
Sent(ws, message) == received' = [received EXCEPT ![ws] = Append(@, message)]

\* a coroutine suspended at line 84 resumes: its snapshot has reached the
\* websocket, and the for loop of line 82 goes on
SendMarketData ==
    /\ \E id \in DOMAIN handlers :
        /\ handlers[id].pc = "market_data"
        /\ Sent(market_data_connections[handlers[id].order.symbol][handlers[id].i],
                handlers[id].snapshot)
        /\ Continue(AtMarketData(
               handlers[id], handlers[id].i + 1,
               market_data_connections[handlers[id].order.symbol],
               trade_connections))
    /\ UNCHANGED <<market_data_connections, trade_connections, files>>
    /\ UNCHANGED <<engine_vars, ob_vars>>
    /\ UNCHANGED <<stop_orders, tasks, promotions>>

\* a coroutine suspended at line 100 resumes: its trade has reached the
\* websocket, and the for loops of lines 98 and 131 go on
SendTrade ==
    /\ \E id \in DOMAIN handlers :
        /\ handlers[id].pc = "trade"
        /\ Sent(trade_connections[handlers[id].j],
                TradeMessage(handlers[id].trades[handlers[id].t]))
        /\ Continue(IF handlers[id].j < Len(trade_connections)
                    THEN [handlers[id] EXCEPT !.j = @ + 1]
                    ELSE AtTrade(handlers[id], handlers[id].t + 1,
                                 trade_connections))
    /\ UNCHANGED <<market_data_connections, trade_connections, files>>
    /\ UNCHANGED <<engine_vars, ob_vars>>
    /\ UNCHANGED <<stop_orders, tasks, promotions>>

\* the snapshot a websocket is sent when it connects to the market data of
\* a symbol without orders (line 210)
Greeting == L2Snapshot(0, NoDepth)

\* the state after construction and the connection of websockets 1 and 2 to
\* the market data of Symbol and of websocket 3 to the trade stream: each
\* connection to the market data has sent the empty snapshot to all
\* websockets of the symbol
InitStream ==
    /\ order_books = EmptyMap
    /\ heap = EmptyMap
    /\ trade_history = <<>>
    /\ symbol_trades = EmptyMap
    /\ nextId = 0
    /\ submitted = EmptyMap
    /\ ret = NoCall
    /\ ob = ob_new
    /\ ob_heap = EmptyMap
    /\ ob_nextId = 0
    /\ ob_ret = ob_NoCall
    /\ stop_orders = <<>>
    /\ tasks = [t \in Tasks |-> "running"]
    /\ promotions = <<>>
    /\ reply = NoReply
    /\ market_data_connections = DictPut(EmptyMap, Symbol, <<1, 2>>)
    /\ trade_connections = <<3>>
    /\ handlers = EmptyMap
    /\ received = [ws \in WebSockets |->
                     IF ws = 1 THEN <<Greeting, Greeting>>
                     ELSE IF ws = 2 THEN <<Greeting>> ELSE <<>>]
    /\ files = EmptyMap

NextStream ==
    Admit \/ SendMarketData \/ SendTrade \/ SubmitStopOrder \/ MonitorStopOrders

\* the HTTP layer and the watcher with websockets connected: a submit_order
\* coroutine may stay suspended in each of its sends for any time
SpecStream == InitStream /\ [][NextStream]_vars

\* ------------------------------------------------------------------ calls on order_book.OrderBook

\* the references the book holds: in its deques and in active_orders
ob_refs(book) ==
    UNION {Range(book.bids[p]) : p \in DOMAIN book.bids}
    \cup UNION {Range(book.asks[p]) : p \in DOMAIN book.asks}
    \cup {book.active_orders[i] : i \in DOMAIN book.active_orders}

\* the order.Order objects still referenced once a call has returned
ob_collect(book, hp) == [r \in DOMAIN hp \cap ob_refs(book) |-> hp[r]]

\* a call on the book begins: no trade yet, nothing raised
ob_enter(hp) ==
    [book |-> ob, heap |-> hp, trade_history |-> trade_history,
     symbol_trades |-> symbol_trades,
     trades |-> <<>>, returned |-> <<>>, raised |-> "none"]

\* a call ends: its effects on the book, the objects and the history stay
ob_leave(b) ==
    /\ ob' = b.book
    /\ ob_heap' = ob_collect(b.book, b.heap)
    /\ trade_history' = b.trade_history
    /\ symbol_trades' = b.symbol_trades

\* the end of an add_order call: the trade list returned, or an exception
ob_leave_add_order(order, b) ==
    /\ ob_leave(b)
    /\ ob_ret' = [ob_NoCall EXCEPT
                    !.op = "add_order",
                    !.asked = order,
                    !.order = b.heap[order.id],
                    !.order_id = order.id,
                    !.returned = b.returned,
                    !.raised = b.raised,
                    !.value = IF b.raised = "none" THEN "trades" ELSE "raised"]

\* ob.add_order(order) for a newly constructed order.Order
OBAddOrder ==
    /\ ob_nextId < MaxOrders
    /\ \E order_type \in OrderTypes, side \in Sides, quantity \in Quantities,
          price \in RawPrices \cup {NoPrice} :
        /\ (order_type = "market") <=> (price = NoPrice)
        /\ ob_leave_add_order(
               order_Order(ob_nextId + 1, order_type, side, quantity, price),
               ob_add_order(
                   ob_enter(DictPut(ob_heap, ob_nextId + 1,
                       order_Order(ob_nextId + 1, order_type, side, quantity, price))),
                   ob_nextId + 1))
    /\ ob_nextId' = ob_nextId + 1
    /\ UNCHANGED <<order_books, heap, nextId, submitted, ret>>
    /\ UNCHANGED <<main_vars, io_vars>>

\* the end of a cancel_order call that found the id
ob_leave_cancel_order(order_id, b) ==
    /\ ob_leave(b)
    /\ ob_ret' = [ob_NoCall EXCEPT
                    !.op = "cancel_order",
                    !.order_id = order_id,
                    !.order = b.heap[ob.active_orders[order_id]],
                    !.value = "True"]

\* ob.cancel_order(order_id)
OBCancelOrder ==
    /\ \E order_id \in 1..MaxOrders :
        IF order_id \notin DOMAIN ob.active_orders
        THEN /\ UNCHANGED <<ob, ob_heap, trade_history, symbol_trades>>
             /\ ob_ret' = [ob_NoCall EXCEPT !.op = "cancel_order",
                                            !.order_id = order_id,
                                            !.value = "False"]
        ELSE ob_leave_cancel_order(
                 order_id,
                 ob_cancel_order(ob_enter(ob_heap), ob.active_orders[order_id]))
    /\ UNCHANGED <<order_books, heap, nextId, submitted, ret, ob_nextId>>
    /\ UNCHANGED <<main_vars, io_vars>>

\* ob.get_bbo()
OBGetBBO ==
    /\ ob' = ob_get_bbo_book(ob)
    /\ ob_ret' = [ob_NoCall EXCEPT !.op = "get_bbo", !.value = "bbo",
                                   !.bbo = ob_get_bbo(ob)]
    /\ UNCHANGED <<ob_heap, ob_nextId>>
    /\ UNCHANGED engine_vars
    /\ UNCHANGED <<main_vars, io_vars>>

\* ob.get_depth(levels)
OBGetDepth ==
    /\ \E levels \in DepthLevels :
        ob_ret' = [ob_NoCall EXCEPT !.op = "get_depth", !.value = "depth",
                                   !.levels = levels,
                                   !.depth = ob_get_depth(ob, ob_heap, levels)]
    /\ UNCHANGED <<ob, ob_heap, ob_nextId>>
    /\ UNCHANGED engine_vars
    /\ UNCHANGED <<main_vars, io_vars>>

NextOB == OBAddOrder \/ OBCancelOrder \/ OBGetBBO \/ OBGetDepth

SpecOB == Init /\ [][NextOB]_vars

\* ------------------------------------------------------------------ properties

\* the book of the one symbol, empty while the engine has not seen it
TheBook == get_order_book(order_books, Symbol)

BookSides == {"bids", "asks"}

RECURSIVE SumQty(_, _)
\* the remaining quantity of the orders in a queue
SumQty(hp, refs) ==
    IF refs = <<>> THEN 0
    ELSE hp[Head(refs)].quantity + SumQty(hp, Tail(refs))

\* the places (side, price, position) at which reference r is queued
Places(book, r) ==
    {<<sd, p, k>> \in UNION {UNION {{<<sd2, p2, k2>> :
                                        k2 \in 1..Len(book[sd2][p2].orders)} :
                                    p2 \in DOMAIN book[sd2]} :
                             sd2 \in BookSides} :
        book[sd][p].orders[k] = r}

\* every reference queued in some level
Queued(book) ==
    UNION {UNION {Range(book[sd][p].orders) : p \in DOMAIN book[sd]} :
           sd \in BookSides}

\* C1: whenever both sides of the book are non-empty, the best bid is
\* strictly below the best ask.
NoCross ==
    (DOMAIN TheBook.bids # {} /\ DOMAIN TheBook.asks # {})
        => get_best_bid(TheBook) < get_best_ask(TheBook)

\* a limit order has just been rested next to a non-empty opposite side
NoCrossWitness ==
    /\ ret.op = "process_order"
    /\ ret.value = "trades"
    /\ ret.order_id \in DOMAIN TheBook.orders
    /\ DOMAIN TheBook.bids # {}
    /\ DOMAIN TheBook.asks # {}

\* C2: each level's total_quantity is the sum of the remaining quantities
\* of the orders queued at it.
LevelAggregates ==
    \A sd \in BookSides : \A p \in DOMAIN TheBook[sd] :
        TheBook[sd][p].total_quantity = SumQty(heap, TheBook[sd][p].orders)

\* C3: the id index and the queued orders are in bijection: an indexed id
\* refers to one order, queued once, on its side and at its price; a queued
\* order is indexed under its id.
IndexBijection ==
    /\ \A i \in DOMAIN TheBook.orders :
        LET r == TheBook.orders[i]
        IN  /\ r \in DOMAIN heap
            /\ heap[r].id = i
            /\ Cardinality(Places(TheBook, r)) = 1
            /\ heap[r].price # NoPrice
            /\ Places(TheBook, r) \subseteq
                   {<<SideOf(heap[r]), normalize_price(heap[r].price), k>> :
                        k \in 1..MaxOrders}
    /\ \A r \in Queued(TheBook) :
        /\ heap[r].id \in DOMAIN TheBook.orders
        /\ TheBook.orders[heap[r].id] = r

\* a match has removed a resting order and other orders are still indexed
IndexBijectionWitness ==
    /\ ret.op = "process_order"
    /\ \E k \in 1..Len(ret.fills) : ret.fills[k].maker_after = 0
    /\ DOMAIN TheBook.orders # {}

\* C4: no level is present without orders or with a zero aggregate, and
\* every queued order has a remaining quantity above zero.
NoEmptyLevel ==
    \A sd \in BookSides : \A p \in DOMAIN TheBook[sd] :
        /\ Len(TheBook[sd][p].orders) > 0
        /\ TheBook[sd][p].total_quantity # 0
        /\ \A r \in Range(TheBook[sd][p].orders) : heap[r].quantity > 0

\* a level has just lost its last order, to a match or to a cancel, and
\* another level is still there
NoEmptyLevelWitness ==
    /\ \/ ret.op = "cancel_order" /\ ret.value = "None"
       \/ ret.op = "process_order" /\ ret.raised = "KeyError"
    /\ \E sd \in BookSides : DOMAIN TheBook[sd] # {}

RECURSIVE TradedBy(_, _)
\* the quantity order id i has traded, as maker or as taker, in history h
TradedBy(h, i) ==
    IF h = <<>> THEN 0
    ELSE (IF Head(h).maker_order_id = i \/ Head(h).taker_order_id = i
          THEN Head(h).quantity ELSE 0) + TradedBy(Tail(h), i)

\* C5: every trade of the last call has quantity min(taker remaining,
\* maker remaining) > 0 read before it and lowers both remainings by that
\* quantity; no remaining quantity is negative and no order trades more
\* than it was submitted with.
FillAccounting ==
    /\ Len(ret.fills) = Len(ret.emitted)
    /\ \A k \in 1..Len(ret.fills) :
        LET f == ret.fills[k]
        IN  /\ ret.emitted[k].quantity = f.quantity
            /\ f.quantity = Min(f.taker_before, f.maker_before)
            /\ f.quantity > 0
            /\ f.maker_after = f.maker_before - f.quantity
            /\ f.taker_after = f.taker_before - f.quantity
            /\ f.maker_after >= 0
            /\ f.taker_after >= 0
    /\ \A r \in DOMAIN heap : heap[r].quantity >= 0
    /\ ret.order.quantity >= 0
    /\ \A i \in DOMAIN submitted : TradedBy(trade_history, i) <= submitted[i]

\* a call traded twice, once filling the maker and once only a part of it
FillAccountingWitness ==
    /\ ret.op = "process_order"
    /\ \E k \in 1..Len(ret.fills) : ret.fills[k].maker_after > 0
    /\ \E k \in 1..Len(ret.fills) : ret.fills[k].taker_after > 0

\* the side an order trades against
Opposite(order) == IF order.side = "buy" THEN "asks" ELSE "bids"

\* the references queued on side sd
QueuedOn(book, sd) == UNION {Range(book[sd][p].orders) : p \in DOMAIN book[sd]}

RECURSIVE FilledBefore(_, _, _)
\* what the first k - 1 fills took from maker x
FilledBefore(fills, x, k) ==
    IF k <= 1 THEN 0
    ELSE (IF fills[k - 1].maker = x THEN fills[k - 1].quantity ELSE 0)
         + FilledBefore(fills, x, k - 1)

\* x is ahead of r on side sd: a better price level, or the same level
\* and admitted earlier (ids count admissions)
Ahead(hp, sd, x, r) ==
    LET px == normalize_price(hp[x].price)
        pr == normalize_price(hp[r].price)
    IN  \/ sd = "asks" /\ px < pr
        \/ sd = "bids" /\ px > pr
        \/ px = pr /\ hp[x].id < hp[r].id

\* C6: a process_order call trades with a resting order only when no
\* resting order ahead of it in price-time priority (price levels compared)
\* has quantity left, and leaves the orders it did not trade with untouched.
PriceTimePriority ==
    [][ret'.op = "process_order" =>
        LET sd == Opposite(ret'.asked)
            before == QueuedOn(TheBook, sd)
            fills == ret'.fills
            makers == {fills[k].maker : k \in 1..Len(fills)}
        IN  /\ \A k \in 1..Len(fills) :
                /\ fills[k].maker \in before
                /\ \A x \in before \ {fills[k].maker} :
                    Ahead(heap, sd, x, fills[k].maker)
                        => heap[x].quantity - FilledBefore(fills, x, k) = 0
            /\ \A x \in before \ makers :
                /\ x \in QueuedOn(TheBook', sd)
                /\ heap'[x] = heap[x]
    ]_vars

\* a buy has traded once, with the earlier of two sells queued at one
\* price, and the later sell is still queued there
PriceTimePriorityWitness ==
    /\ ret.op = "process_order"
    /\ ret.asked.side = "buy"
    /\ Len(ret.fills) = 1
    /\ ret.emitted[1].price \in DOMAIN TheBook.asks
    /\ \E r \in Range(TheBook.asks[ret.emitted[1].price].orders) :
        /\ r > ret.fills[1].maker
        /\ heap[r].quantity = submitted[r]

\* the roles and the price of the trades of a process_order step, with the
\* limit of the incoming order read through Limit
TradeRoles(Limit(_)) ==
    ret'.op = "process_order" =>
        \A k \in 1..Len(ret'.emitted) :
            LET t == ret'.emitted[k]
                taker == ret'.asked
                sd == Opposite(taker)
            IN  /\ t.maker_order_id \in DOMAIN TheBook.orders
                /\ t.price \in DOMAIN TheBook[sd]
                /\ TheBook.orders[t.maker_order_id]
                       \in Range(TheBook[sd][t.price].orders)
                /\ t.taker_order_id = taker.id
                /\ taker.id \notin DOMAIN TheBook.orders
                /\ t.aggressor_side = taker.side
                /\ t.symbol = taker.symbol
                /\ taker.order_type \in {"limit", "ioc", "fok"} =>
                    /\ taker.side = "buy" => t.price <= Limit(taker)
                    /\ taker.side = "sell" => t.price >= Limit(taker)

\* the limit as the order carries it
RawLimit(order) == order.price

\* the limit as the book compares it
CanonicalLimit(order) == normalize_price(order.price)

\* C7 as stated: the maker is the resting order, the taker the incoming
\* one, the aggressor side the incoming side, the price the resting order's
\* level price, and no trade is worse than the order's limit.
TradeRolesRawLimit == [][TradeRoles(RawLimit)]_vars

\* C7 amended: as above, with no trade worse than the order's limit
\* rounded to two decimals.
TradeRolesCanonicalLimit == [][TradeRoles(CanonicalLimit)]_vars

\* a limit order has traded at a price other than its rounded limit
TradeRolesWitness ==
    /\ ret.op = "process_order"
    /\ ret.asked.order_type \in {"limit", "ioc", "fok"}
    /\ \E k \in 1..Len(ret.emitted) :
        ret.emitted[k].price # normalize_price(ret.asked.price)

\* the remaining quantity queued on side sd at prices an order with the
\* rounded limit lim may trade at
AdmissibleQty(book, hp, order) ==
    LET sd == Opposite(order)
        lim == normalize_price(order.price)
        ok == {p \in DOMAIN book[sd] :
                  IF order.side = "buy" THEN p <= lim ELSE p >= lim}
        RECURSIVE Total(_)
        Total(S) == IF S = {} THEN 0
                    ELSE LET p == SetMin(S)
                         IN  SumQty(hp, book[sd][p].orders) + Total(S \ {p})
    IN  Total(ok)

RECURSIVE SumTrades(_)
\* the quantity of a list of trades
SumTrades(ts) ==
    IF ts = <<>> THEN 0 ELSE Head(ts).quantity + SumTrades(Tail(ts))

\* C8: with one resting limit order of quantity q at price p as the only
\* order of the book, process_order of an opposite limit order of quantity
\* q at price p returns exactly one trade (p, q, incoming side) and leaves
\* the book without levels and without indexed orders, both best prices
\* null.
ExactCrossing ==
    [][\A r \in DOMAIN heap :
        (/\ ret'.op = "process_order"
         /\ DOMAIN TheBook.orders = {heap[r].id}
         /\ Queued(TheBook) = {r}
         /\ ret'.asked.order_type = "limit"
         /\ ret'.asked.side # heap[r].side
         /\ ret'.asked.quantity = heap[r].quantity
         /\ ret'.asked.price = heap[r].price)
        => /\ ret'.value = "trades"
           /\ Len(ret'.emitted) = 1
           /\ ret'.emitted[1].price = normalize_price(heap[r].price)
           /\ ret'.emitted[1].quantity = heap[r].quantity
           /\ ret'.emitted[1].aggressor_side = ret'.asked.side
           /\ DOMAIN TheBook'.bids = {}
           /\ DOMAIN TheBook'.asks = {}
           /\ DOMAIN TheBook'.orders = {}
           /\ get_best_bid(TheBook') = NoPrice
           /\ get_best_ask(TheBook') = NoPrice
    ]_vars

\* C10: process_order of a limit order larger than the opposite quantity at
\* admissible prices returns trades for all of that quantity, removes those
\* orders and levels, and rests the order at its limit with what is left,
\* indexed under its id and last in its level.
PartialFillThenRest ==
    [][(/\ ret'.op = "process_order"
        /\ ret'.asked.order_type = "limit"
        /\ ret'.asked.quantity > AdmissibleQty(TheBook, heap, ret'.asked))
       => LET order == ret'.asked
              own == SideOf(order)
              key == normalize_price(order.price)
              traded == AdmissibleQty(TheBook, heap, order)
          IN  /\ ret'.value = "trades"
              /\ SumTrades(ret'.emitted) = traded
              /\ AdmissibleQty(TheBook', heap', order) = 0
              /\ \A p \in DOMAIN TheBook'[Opposite(order)] :
                    IF order.side = "buy" THEN p > key ELSE p < key
              /\ order.id \in DOMAIN TheBook'.orders
              /\ key \in DOMAIN TheBook'[own]
              /\ LET q == TheBook'[own][key].orders
                 IN  /\ Len(q) > 0
                     /\ q[Len(q)] = TheBook'.orders[order.id]
                     /\ heap'[q[Len(q)]].quantity = order.quantity - traded
    ]_vars

\* the remaining quantity queued on the side opposite to an order, at any
\* price
OppositeQty(book, hp, order) ==
    LET sd == Opposite(order)
        RECURSIVE Total(_)
        Total(S) == IF S = {} THEN 0
                    ELSE LET p == SetMin(S)
                         IN  SumQty(hp, book[sd][p].orders) + Total(S \ {p})
    IN  Total(DOMAIN book[sd])

\* the prices of a list of trades never get better for the taker
BestPriceFirst(ts, side) ==
    \A k \in 1..(Len(ts) - 1) :
        IF side = "buy" THEN ts[k].price <= ts[k + 1].price
        ELSE ts[k].price >= ts[k + 1].price

\* C11: process_order of a market order of quantity q returns trades, best
\* price first, whose quantities sum to min(q, the opposite remaining
\* quantity); the order is in no level and not in the id index afterwards;
\* against an empty opposite side it returns no trade and changes nothing.
MarketSweep ==
    [][(/\ ret'.op = "process_order"
        /\ ret'.asked.order_type = "market")
       => LET order == ret'.asked
          IN  /\ ret'.value = "trades"
              /\ SumTrades(ret'.emitted)
                     = Min(order.quantity, OppositeQty(TheBook, heap, order))
              /\ BestPriceFirst(ret'.emitted, order.side)
              /\ order.id \notin DOMAIN TheBook'.orders
              /\ order.id \notin Queued(TheBook')
              /\ DOMAIN TheBook[Opposite(order)] = {} =>
                    /\ ret'.emitted = <<>>
                    /\ TheBook' = TheBook
                    /\ trade_history' = trade_history
    ]_vars

\* C12: process_order of a fok order whose quantity exceeds the remaining
\* quantity resting at admissible prices (limit compared as the book
\* compares it) returns no trade, records none in the history, and leaves
\* levels, queues, remaining quantities and id index as they were.
FokFailureInert ==
    [][(/\ ret'.op = "process_order"
        /\ ret'.asked.order_type = "fok"
        /\ AdmissibleQty(TheBook, heap, ret'.asked) < ret'.asked.quantity)
       => /\ ret'.value = "trades"
          /\ ret'.emitted = <<>>
          /\ trade_history' = trade_history
          /\ TheBook' = TheBook
          /\ heap' = heap
    ]_vars

\* the trades the step has added to the trade history
Recorded == SubSeq(trade_history', Len(trade_history) + 1, Len(trade_history'))

\* C13: process_order of a fok order records trades for the order's whole
\* quantity or records no trade at all, and the fok order is afterwards in
\* no level and not in the id index.
FokAllOrNothing ==
    [][(/\ ret'.op = "process_order"
        /\ ret'.asked.order_type = "fok")
       => /\ \/ SumTrades(Recorded) = ret'.asked.quantity
             \/ Recorded = <<>>
          /\ ret'.asked.id \notin DOMAIN TheBook'.orders
          /\ ret'.asked.id \notin Queued(TheBook')
    ]_vars

\* C14: after process_order of an ioc order the order is in no level and
\* not in the id index, and the call returns trades for exactly
\* min(quantity, remaining quantity resting at admissible prices).
IocNeverRests ==
    [][(/\ ret'.op = "process_order"
        /\ ret'.asked.order_type = "ioc")
       => /\ ret'.asked.id \notin DOMAIN TheBook'.orders
          /\ ret'.asked.id \notin Queued(TheBook')
          /\ ret'.value = "trades"
          /\ SumTrades(ret'.emitted)
                 = Min(ret'.asked.quantity,
                       AdmissibleQty(TheBook, heap, ret'.asked))
    ]_vars

\* the book of a symbol, empty when the engine does not know the symbol
BookOf(books, symbol) == get_order_book(books, symbol)

\* C15: cancel_order(symbol, id) returns true exactly when an order with
\* that id was resting in the symbol's book; the order is then gone from
\* its level and from the id index, and a level it emptied is dropped.
CancelReturnsTrue ==
    [][ret'.op = "cancel_order" =>
        LET before == BookOf(order_books, ret'.symbol)
            after == BookOf(order_books', ret'.symbol)
            was_resting == ret'.order_id \in DOMAIN before.orders
        IN  /\ (ret'.value = "True") <=> was_resting
            /\ was_resting =>
                /\ ret'.order_id \notin DOMAIN after.orders
                /\ before.orders[ret'.order_id] \notin Queued(after)
                /\ \A sd \in BookSides : \A p \in DOMAIN after[sd] :
                       after[sd][p].orders # <<>>
    ]_vars

\* the call just made is a cancel_order or a get_order_status whose symbol
\* or id the engine did not know
NotFound ==
    /\ ret'.op \in {"cancel_order", "get_order_status"}
    /\ ret'.order_id \notin DOMAIN BookOf(order_books, ret'.symbol).orders

\* C16: cancel_order and get_order_status for an unknown symbol or an
\* unknown id return false / nothing without raising and leave every book
\* and the set of known symbols as they were; the id of a filled or
\* cancelled order is unknown: no indexed order has quantity zero, and an
\* id that has left the index, or was never put in it, stays out.
NotFoundInert ==
    [][/\ NotFound =>
            /\ ret'.raised = "none"
            /\ ret'.value = IF ret'.op = "cancel_order" THEN "False" ELSE "None"
            /\ ret'.order = NoOrder
            /\ order_books' = order_books
            /\ heap' = heap
            /\ trade_history' = trade_history
       /\ \A i \in DOMAIN TheBook'.orders :
            heap'[TheBook'.orders[i]].quantity > 0
       /\ \A i \in DOMAIN submitted :
            i \notin DOMAIN TheBook.orders => i \notin DOMAIN TheBook'.orders
    ]_vars

\* cancel_order has just returned false for the id of an order that had
\* rested and was then filled completely
NotFoundInertWitness ==
    /\ ret.op = "cancel_order"
    /\ ret.value = "False"
    /\ ret.order_id \in DOMAIN submitted
    /\ submitted[ret.order_id] > 0
    /\ \E k \in 1..Len(trade_history) :
        trade_history[k].maker_order_id = ret.order_id
    /\ TradedBy(trade_history, ret.order_id) = submitted[ret.order_id]

\* ------------------------------------------------------------------ admission

\* the step is a submit_order request, answered
SubmitOrderStep ==
    /\ reply'.endpoint = "submit_order"
    /\ reply'.request.id = nextId + 1

\* C17: submit_order of an order with a quantity of zero or less, or with
\* an order type outside market, limit, ioc and fok, is not answered with
\* status accepted, records no trade and leaves the book as it was.
InvalidOrderRejected ==
    [][(/\ SubmitOrderStep
        /\ \/ reply'.request.quantity <= 0
           \/ reply'.request.order_type \notin OrderTypes)
       => /\ reply'.status # "accepted"
          /\ trade_history' = trade_history
          /\ TheBook' = TheBook
    ]_vars

\* an order that needs a price and has none
LacksPrice(order) ==
    order.order_type \in {"limit", "ioc", "fok"} /\ order.price = NoPrice

\* the step is one process_order call, made by submit_order or directly
ProcessOrderStep ==
    /\ ret'.op = "process_order"
    /\ ret'.order_id = nextId + 1
    /\ promotions' = promotions

\* the process_order calls the watchers have made in the step
NewPromotions == SubSeq(promotions', Len(promotions) + 1, Len(promotions'))

\* C18: a limit, ioc or fok order without a price leaves the levels and the
\* id index of the book as they were, whether submit_order turns it away
\* or process_order is called with it, by the watcher or directly.
NoPriceNeverMutates ==
    [][/\ (ProcessOrderStep /\ LacksPrice(ret'.asked)) => TheBook' = TheBook
       /\ (SubmitOrderStep /\ LacksPrice(reply'.request)) => TheBook' = TheBook
       /\ \A k \in 1..Len(NewPromotions) :
            LacksPrice(NewPromotions[k].order)
                => NewPromotions[k].after = NewPromotions[k].before
    ]_vars

\* ------------------------------------------------------------------ triggers

\* the side of the BBO a conditional order looks at: the ask for a buy, the
\* bid for a sell
Consulted(order, bbo) == IF order.side = "buy" THEN bbo.ask ELSE bbo.bid

\* the trigger table: stop_loss and stop_limit fire for a buy when the ask
\* is at or above the trigger and for a sell when the bid is at or below it;
\* take_profit the other way round
TableFires(order, bbo) ==
    /\ Consulted(order, bbo) # NoPrice
    /\ IF (order.trigger_type = "take_profit") = (order.side = "buy")
       THEN Consulted(order, bbo) <= order.trigger_price
       ELSE Consulted(order, bbo) >= order.trigger_price

\* C19: should_trigger answers as the trigger table says, for every trigger
\* type, side and BBO: stop_loss and stop_limit fire for a buy iff
\* ask >= trigger and for a sell iff bid <= trigger, take_profit for a buy
\* iff ask <= trigger and for a sell iff bid >= trigger, and nothing fires
\* when the side of the BBO it looks at is absent
TriggerTable ==
    ret.op = "should_trigger"
        => /\ ret.value = TableFires(ret.asked, ret.bbo)
           /\ Consulted(ret.asked, ret.bbo) = NoPrice => ret.value = FALSE

\* a sell stop_limit fired by a bid under its trigger while the ask is absent
TriggerTableWitness ==
    /\ ret.op = "should_trigger"
    /\ ret.asked.trigger_type = "stop_limit"
    /\ ret.asked.side = "sell"
    /\ ret.bbo.ask = NoPrice
    /\ ret.bbo.bid < ret.asked.trigger_price
    /\ ret.value = TRUE

\* ------------------------------------------------------------------ promotion

\* the ids of the orders of a list
Ids(orders) == {orders[k].id : k \in 1..Len(orders)}

\* the process_order call r of the watcher follows the protocol: the order
\* had left the pending list, its trigger fields were cleared, its id is
\* not the queued one, and its type is the queued order's
Protocol(r) ==
    /\ r.queued.id \notin Ids(r.pending)
    /\ r.order.trigger_price = NoPrice
    /\ r.order.trigger_type = NoTrigger
    /\ r.order.id # r.queued.id
    /\ r.order.order_type = r.queued.order_type
    /\ r.order.order_type \in {"limit", "market"}
    /\ r.order.side = r.queued.side
    /\ r.order.quantity = r.queued.quantity
    /\ r.order.price = r.queued.price

\* C20: every process_order call of the watcher is made after the order left
\* the pending list, with trigger_price and trigger_type cleared, under a
\* fresh id that differs from the queued id, and as the queued order's type;
\* no conditional order is promoted twice and no promoted order is pending
\* again, under either id, with both watcher tasks running
PromotionProtocol ==
    \A k \in 1..Len(promotions) :
        /\ Protocol(promotions[k])
        /\ promotions[k].queued.id \notin Ids(stop_orders)
        /\ promotions[k].order.id \notin Ids(stop_orders)
        /\ \A j \in 1..Len(promotions) :
            /\ promotions[j].queued.id # promotions[k].order.id
            /\ j # k => promotions[j].queued.id # promotions[k].queued.id
            /\ j # k => promotions[j].order.id # promotions[k].order.id

\* two conditional orders promoted in two passes, one by each task
PromotionProtocolWitness ==
    /\ Len(promotions) = 2
    /\ promotions[1].task # promotions[2].task
    /\ promotions[1].raised = "none"

\* ------------------------------------------------------------------ queries

\* the step is a get_bbo, get_order_book_depth or get_order_status call
QueryStep ==
    /\ ret' # ret
    /\ ret'.op \in {"get_bbo", "get_order_book_depth", "get_order_status"}

\* the prices of the rows of one side of a depth
RowPrices(rows) == [k \in 1..Len(rows) |-> rows[k][1]]

\* rows holds the best Min(n, number of levels) prices of a side, best first
TopOf(rows, prices, n) ==
    /\ Len(rows) = Min(n, Len(prices))
    /\ RowPrices(rows) = SubSeq(prices, 1, Len(rows))

\* C30: get_bbo, get_order_book_depth and get_order_status leave every
\* book's levels, aggregates and id index unchanged and register no symbol;
\* for a symbol never seen they give no bid and no ask, empty bids and asks,
\* and no order; get_order_book_depth(levels = n) gives at most n distinct
\* prices per side, the best n, bids descending and asks ascending
QueriesReadOnly ==
    [][QueryStep =>
        /\ order_books' = order_books
        /\ heap' = heap
        /\ trade_history' = trade_history
        /\ ret'.symbol \notin DOMAIN order_books =>
            /\ ret'.op = "get_bbo" => ret'.bbo = NoBBO
            /\ ret'.op = "get_order_book_depth" => ret'.depth = NoDepth
            /\ ret'.op = "get_order_status" => ret'.value = "None"
        /\ (ret'.op = "get_order_book_depth"
            /\ ret'.symbol \in DOMAIN order_books) =>
            /\ Len(ret'.depth.bids) <= ret'.levels
            /\ Len(ret'.depth.asks) <= ret'.levels
            /\ TopOf(ret'.depth.bids,
                     SortedDesc(DOMAIN order_books[ret'.symbol].bids),
                     ret'.levels)
            /\ TopOf(ret'.depth.asks,
                     SortedAsc(DOMAIN order_books[ret'.symbol].asks),
                     ret'.levels)
    ]_vars

\* a depth of one level asked of a book with two bid prices, and given
QueriesReadOnlyWitness ==
    /\ ret.op = "get_order_book_depth"
    /\ ret.levels = 1
    /\ ret.symbol \in DOMAIN order_books
    /\ Cardinality(DOMAIN order_books[ret.symbol].bids) = 2
    /\ Len(ret.depth.bids) = 1

\* ------------------------------------------------------------------ trade log

RECURSIVE TradesOf(_, _)
\* the trades of symbol in a list of trades, in the order of the list
TradesOf(trades, symbol) ==
    IF trades = <<>> THEN <<>>
    ELSE (IF Head(trades).symbol = symbol THEN <<Head(trades)>> ELSE <<>>)
         \o TradesOf(Tail(trades), symbol)

\* the trades of symbol the recorder retains, oldest first
Retained(symbol) ==
    IF symbol \in DOMAIN symbol_trades THEN symbol_trades[symbol] ELSE <<>>

\* the last n of a list, newest first
NewestFirst(xs, n) ==
    [k \in 1..Min(n, Len(xs)) |-> xs[Len(xs) + 1 - k]]

\* C27: get_recent_trades(symbol, limit) gives exactly the min(limit, number
\* retained) most recently recorded trades of the symbol, newest first, for
\* every limit >= 0, so none for limit = 0, and gives none for a symbol
\* without trades, creating no entry for it
RecentTrades ==
    [][ret'.op = "get_recent_trades" =>
        /\ ret'.value = NewestFirst(Retained(ret'.symbol), ret'.limit)
        /\ symbol_trades' = symbol_trades
    ]_vars

\* C28: each symbol's deque holds at most MaxLen trades, the last MaxLen
\* recorded for that symbol in recording order, the oldest evicted first;
\* trade_history holds every recorded trade of every symbol in recording
\* order; a trade of one symbol is in no other symbol's deque and evicts
\* nothing from it
TradeRing ==
    /\ \A symbol \in Symbols :
        /\ Len(Retained(symbol)) <= MaxLen
        /\ Retained(symbol)
             = Reversed(NewestFirst(TradesOf(trade_history, symbol), MaxLen))
        /\ symbol \in DOMAIN symbol_trades
             <=> TradesOf(trade_history, symbol) # <<>>
    /\ ret.op = "log_trade"
        => /\ trade_history # <<>>
           /\ trade_history[Len(trade_history)] = ret.trade

\* a deque that has evicted its oldest trade while the other symbol's
\* deque holds a trade recorded before the evicted one
TradeRingWitness ==
    /\ ret.op = "log_trade"
    /\ Len(TradesOf(trade_history, Symbol)) > MaxLen
    /\ Len(Retained(Symbol)) = MaxLen
    /\ Len(Retained(UnknownSymbol)) = 1
    /\ trade_history[1].symbol = UnknownSymbol

\* ------------------------------------------------------------------ restart

\* the resting orders of one side of a symbol's book, per price in queue
\* order
RestingSide(side_levels, hp) ==
    [p \in DOMAIN side_levels |->
        [k \in 1..Len(side_levels[p].orders) |-> hp[side_levels[p].orders[k]]]]

\* the resting orders of a symbol
Resting(books, hp, symbol) ==
    [bids |-> RestingSide(get_order_book(books, symbol).bids, hp),
     asks |-> RestingSide(get_order_book(books, symbol).asks, hp)]

\* C29: saving the books, loading the saved orders through process_order
\* into a new engine and saving again gives the same orders, with the same
\* sides, prices, remaining quantities and queue order per level; no saved
\* order is dropped or traded while loading
RestartIdempotent ==
    [][ret'.op = "restart" =>
        /\ \A symbol \in Symbols :
             Resting(order_books', heap', symbol)
                 = Resting(order_books, heap, symbol)
        /\ trade_history' = <<>>
    ]_vars

\* ------------------------------------------------------------------ watcher

\* the BBO a watcher pass reads
WatchedBBO == get_bbo(order_books, Symbol)

\* the conditional order queued under id is pending and its trigger holds
PendingFiring(id) ==
    \E k \in 1..Len(stop_orders) :
        /\ stop_orders[k].id = id
        /\ should_trigger(stop_orders[k], WatchedBBO)

\* a watcher pass that found a trigger to hold: the first order of
\* to_trigger is then submitted
Tick == promotions' # promotions

\* C21: every pending order whose trigger holds when a watcher ticks is
\* promoted on that tick, whatever became of the orders promoted before it
\* on that tick, and a watcher stays alive to tick again, without which no
\* order whose trigger holds from some point on is eventually promoted
WatcherPromotes ==
    /\ [][Tick => \A id \in 1..MaxOrders :
                    PendingFiring(id) => id \notin Ids(stop_orders')]_vars
    /\ [](\E task \in Tasks : tasks[task] = "running")

\* the step is a cancel_order call
CancelStep ==
    /\ ret'.op = "cancel_order"
    /\ nextId' = nextId
    /\ promotions' = promotions

\* the ids retired by a promotion
Retired == {promotions[k].queued.id : k \in 1..Len(promotions)}

\* the ids given by a promotion to orders that now rest in the book
PromotedResting ==
    {promotions[k].order.id : k \in 1..Len(promotions)}
        \cap DOMAIN TheBook.orders

\* C22: cancel with the queued id of a pending conditional order returns
\* true and takes the order out of the pending list, so that no watcher
\* can promote it afterwards; cancel with an id retired by a promotion
\* returns false; cancel with the new id of a promoted order that rests
\* returns true and removes the order from the book
ConditionalCancellable ==
    [][CancelStep =>
        /\ ret'.order_id \in Ids(stop_orders) =>
            /\ ret'.value = "True"
            /\ ret'.order_id \notin Ids(stop_orders')
        /\ ret'.order_id \in Retired => ret'.value = "False"
        /\ ret'.order_id \in PromotedResting =>
            /\ ret'.value = "True"
            /\ ret'.order_id \notin DOMAIN TheBook'.orders
    ]_vars

\* --- concurrency

\* the trades stand in trade_history grouped by taker, the takers in the
\* order of their admission
TakersInOrder ==
    \A i, j \in 1..Len(trade_history) :
        i < j => trade_history[i].taker_order_id <= trade_history[j].taker_order_id

\* some submit_order coroutine is suspended in a send
Suspended == handlers # EmptyMap

\* C26: process_order is atomic: in every state a read or another handler
\* can observe, the book is not crossed, has no emptied level and no index
\* entry without its order in a level, and the trades of one order are
\* all recorded before those of the next
ProcessAtomic ==
    /\ NoCross
    /\ NoEmptyLevel
    /\ IndexBijection
    /\ TakersInOrder

\* an order was processed and answered while the coroutine of an earlier
\* order, whose trade is recorded, is still suspended in a send
ProcessAtomicWitness ==
    \E id \in DOMAIN handlers :
        /\ handlers[id].trades # <<>>
        /\ ret.op = "process_order"
        /\ ret.order_id > id
        /\ ret.order_id \notin DOMAIN handlers
        /\ reply.order_id = ret.order_id

\* --- market data stream

\* the step altered the resting orders of Symbol
Altered == Resting(order_books', heap', Symbol) # Resting(order_books, heap, Symbol)

\* after the step a coroutine holds a snapshot of the book as the step left
\* it and has still to send it to ws
Owed(ws) ==
    \E id \in DOMAIN handlers' :
        /\ handlers'[id].pc = "market_data"
        /\ handlers'[id].snapshot.bids
               = get_order_book_depth(order_books', Symbol, 10).bids
        /\ handlers'[id].snapshot.asks
               = get_order_book_depth(order_books', Symbol, 10).asks
        /\ \E k \in handlers'[id].i..Len(market_data_connections[Symbol]) :
               market_data_connections[Symbol][k] = ws

\* C23: every step in which process_order alters the book of a symbol,
\* for a submitted order or for an order the watcher promotes, with or
\* without trades, leaves a snapshot of the book as it then is on its way
\* to every market data websocket of the symbol
SnapshotFollows ==
    [][Altered => \A ws \in MarketDataSockets : Owed(ws)]_vars


\* --- trade stream

\* the trades websocket ws received, in the order of their arrival
TradesReceived(ws) ==
    [k \in 1..Len(received[ws]) |-> received[ws][k].trade]

\* a is b with some elements left out
RECURSIVE IsSubsequence(_, _)
IsSubsequence(a, b) ==
    IF a = <<>> THEN TRUE
    ELSE IF b = <<>> THEN FALSE
    ELSE IF Head(a) = Head(b) THEN IsSubsequence(Tail(a), Tail(b))
    ELSE IsSubsequence(a, Tail(b))

\* C24: each trade websocket receives the recorded trades once each and in
\* the order of trade_history, and once no submit_order coroutine is
\* suspended in a broadcast it has received every recorded trade, those of
\* promoted conditional orders included
TradeStream ==
    \A ws \in TradeSockets :
        /\ IsSubsequence(TradesReceived(ws), trade_history)
        /\ handlers = EmptyMap => TradesReceived(ws) = trade_history

\* --- snapshot order

\* C25: each market data websocket receives the snapshots in the order in
\* which the orders that caused them were admitted: a snapshot taken after
\* a later order never arrives before the snapshot taken after an earlier
\* one, whatever the interleaving of the coroutines at their sends
SnapshotOrder ==
    \A ws \in MarketDataSockets :
        \A i, j \in 1..Len(received[ws]) :
            i < j => received[ws][i].cause <= received[ws][j].cause

\* --- completion

\* the step is a process_order call for an order of a known type, with a
\* positive quantity and, unless it is a market order, a price
ValidCall ==
    /\ nextId' = nextId + 1
    /\ ret'.op = "process_order"
    /\ ret'.asked.order_type \in OrderTypes
    /\ ret'.asked.quantity > 0
    /\ ret'.asked.order_type # "market" => ret'.asked.price # NoPrice

\* the trades appended to trade_history during the step
Appended ==
    SubSeq(trade_history', Len(trade_history) + 1, Len(trade_history'))

\* C31: process_order for a valid order raises no exception on any
\* reachable book, also when the match takes the last order of an opposite
\* level, and returns exactly the trades appended to trade_history during
\* the call, in that order
ProcessCompletes ==
    [][ValidCall => /\ ret'.raised = "none"
                    /\ ret'.emitted = Appended]_vars

\* ------------------------------------------------------------------ order_book.OrderBook

\* the references queued in the order_book.OrderBook, on either side
ob_queued(book) ==
    UNION {Range(book.bids[p]) : p \in DOMAIN book.bids}
    \cup UNION {Range(book.asks[p]) : p \in DOMAIN book.asks}

\* the book holds no order
ob_is_empty(book) ==
    book.active_orders = EmptyMap /\ ob_queued(book) = {}

\* order r rests in the book: in active_orders and last in its price's deque
ob_rests(book, r, side, price) ==
    LET book_side == IF side = "buy" THEN book.bids ELSE book.asks
    IN  /\ r \in DOMAIN book.active_orders
        /\ book.active_orders[r] = r
        /\ price \in DOMAIN book_side
        /\ book_side[price] # <<>>
        /\ book_side[price][Len(book_side[price])] = r

\* the call just made is add_order of a limit order of positive quantity
ob_added_limit ==
    /\ ob_nextId' = ob_nextId + 1
    /\ ob_ret'.op = "add_order"
    /\ ob_ret'.asked.order_type = "limit"
    /\ ob_ret'.asked.quantity > 0

\* the one order resting before the call, r, is a limit order of the other
\* side with the price and the quantity of the order just added
ob_crosses_exactly(r) ==
    /\ DOMAIN ob.active_orders = {r}
    /\ ob_queued(ob) = {r}
    /\ ob_heap[r].order_type = "limit"
    /\ ob_heap[r].side # ob_ret'.asked.side
    /\ ob_heap[r].price = ob_ret'.asked.price
    /\ ob_heap[r].quantity = ob_ret'.asked.quantity

\* C9: in order_book.OrderBook, add_order of a limit order on an empty book
\* returns no trades and rests the order, and add_order of a limit order that
\* crosses the one resting limit order of the opposite side at the same price
\* and quantity returns a list of exactly one trade, whose element [2] is the
\* resting order's price
LimitOrderMatching ==
    [][ob_added_limit =>
        /\ ob_is_empty(ob) =>
              /\ ob_ret'.raised = "none"
              /\ ob_ret'.returned = <<>>
              /\ ob_rests(ob', ob_ret'.order_id, ob_ret'.asked.side,
                          ob_ret'.asked.price)
        /\ \A r \in DOMAIN ob_heap :
              ob_crosses_exactly(r) =>
                  /\ ob_ret'.raised = "none"
                  /\ Len(ob_ret'.returned) = 1
                  /\ ob_ret'.returned[1][3] = ob_heap[r].price
       ]_vars

\* --- fill or kill

\* the sum of the quantities of the orders refs
RECURSIVE ob_sum_quantity(_, _)
ob_sum_quantity(refs, hp) ==
    IF refs = {} THEN 0
    ELSE hp[CHOOSE r \in refs : TRUE].quantity
         + ob_sum_quantity(refs \ {CHOOSE r \in refs : TRUE}, hp)

\* the orders an incoming order of side at price could trade with: those
\* queued on the other side at a price it accepts
ob_matchable(book, side, price) ==
    IF side = "buy"
    THEN UNION {Range(book.asks[p]) : p \in {q \in DOMAIN book.asks : q <= price}}
    ELSE UNION {Range(book.bids[p]) : p \in {q \in DOMAIN book.bids : q >= price}}

\* the call just made is add_order of a fok order that the book before the
\* call cannot fill completely
ob_added_unfillable_fok ==
    /\ ob_nextId' = ob_nextId + 1
    /\ ob_ret'.op = "add_order"
    /\ ob_ret'.asked.order_type = "fok"
    /\ ob_ret'.asked.quantity > 0
    /\ ob_sum_quantity(ob_matchable(ob, ob_ret'.asked.side, ob_ret'.asked.price),
                       ob_heap)
           < ob_ret'.asked.quantity

\* C32: in order_book.OrderBook, add_order of a fok order that cannot be
\* filled completely returns an empty trade list and leaves the deques, the
\* price levels, the price heaps and active_orders as they were, and every
\* resting order with the quantity it had
FokRejected ==
    [][ob_added_unfillable_fok =>
        /\ ob_ret'.raised = "none"
        /\ ob_ret'.returned = <<>>
        /\ ob' = ob
        /\ \A r \in ob_queued(ob) :
              r \in DOMAIN ob_heap' /\ ob_heap'[r] = ob_heap[r]
       ]_vars

\* --- price heaps

\* the prices of a side that have at least one resting order
ob_live(side) == {p \in DOMAIN side : side[p] # <<>>}

\* the best bid and ask read off the deques
ob_true_bbo(book) ==
    [bid |-> IF ob_live(book.bids) = {} THEN NoPrice
             ELSE SetMax(ob_live(book.bids)),
     ask |-> IF ob_live(book.asks) = {} THEN NoPrice
             ELSE SetMin(ob_live(book.asks))]

\* the rows of the first levels live prices of a side, in the order prices
ob_true_rows(hp, side, prices, levels) ==
    [k \in 1..Len(SliceTo(prices, levels)) |->
        <<prices[k], ob_level_quantity(hp, side[prices[k]])>>]

\* the depth read off the deques: each live price once, best first
ob_true_depth(book, hp, levels) ==
    [bids |-> ob_true_rows(hp, book.bids, SortedDesc(ob_live(book.bids)), levels),
     asks |-> ob_true_rows(hp, book.asks, SortedAsc(ob_live(book.asks)), levels)]

\* the price an incoming order matches with, market orders at any price
ob_reach(order) ==
    IF order.order_type # "market" THEN order.price
    ELSE IF order.side = "buy" THEN Inf ELSE 0

\* the makers of the trades in a returned list
ob_makers(trades) == {trades[k][2] : k \in 1..Len(trades)}

\* the step is an add_order call
ob_added == ob_nextId' = ob_nextId + 1 /\ ob_ret'.op = "add_order"

\* C33: in order_book.OrderBook, after any add_order and cancel_order
\* calls, get_bbo returns the highest price with a resting buy order and
\* the lowest price with a resting sell order (none when the side has
\* none), get_depth lists each live price once, best first, and stale or
\* duplicate heap entries make no incoming order trade with an order that
\* is not resting or return unfilled while a matchable order rests
HeapsFaithful ==
    [][/\ ob_ret'.op = "get_bbo" => ob_ret'.bbo = ob_true_bbo(ob)
       /\ ob_ret'.op = "get_depth" =>
              ob_ret'.depth = ob_true_depth(ob, ob_heap, ob_ret'.levels)
       /\ ob_added =>
              /\ ob_makers(ob_ret'.returned) \subseteq ob_queued(ob)
              /\ ob_matchable(ob, ob_ret'.asked.side, ob_reach(ob_ret'.asked)) = {}
                     => ob_ret'.raised = "none" /\ ob_ret'.returned = <<>>
              /\ ob_ret'.raised = "none" =>
                     \/ ob_ret'.order.quantity = 0
                     \/ ob_ret'.asked.quantity = 0
                     \/ ob_matchable(ob', ob_ret'.asked.side,
                                     ob_reach(ob_ret'.asked)) \ {ob_ret'.order_id}
                            = {}
      ]_vars

\* get_depth has listed a price whose level was emptied by cancel_order and
\* filled again, so that the heap holds the price twice
HeapsFaithfulWitness ==
    /\ ob_ret.op = "get_depth"
    /\ ob_ret.depth.bids # <<>>
    /\ \E j, k \in 1..Len(ob.bid_prices) :
           j # k /\ ob.bid_prices[j] = ob.bid_prices[k]
                 /\ (0 - ob.bid_prices[j]) \in ob_live(ob.bids)

====
